---- MODULE Spec2Model ----
(***************************************************************************)
(* Agent lifecycle and task scheduling engine of hewenyu/Aegis:            *)
(* the agent Manager (CreateAgent, DestroyAgent, AssignTask, CancelTask,   *)
(* emitEvent), the baseAgent record (Initialize, Execute, Stop) and the    *)
(* per-agent Runtime (EnqueueTask, taskWorker, processTask, executeTask    *)
(* and the task type handlers).                                            *)
(*                                                                         *)
(* The client of the Manager is sequential: one Manager call returns       *)
(* before the next is made.  What runs in parallel with the client are the *)
(* goroutine AssignTask starts for every task and the Runtime workers;     *)
(* every access of theirs to shared state is a step of its own.            *)
(* CancelTask reads and writes the task table in two steps, because a      *)
(* goroutine's Store can land between its Load and its Store.  CreateAgent *)
(* is one step when it makes the agent's ID itself, and two steps (the     *)
(* open channel, then agent_created) when the caller chose the ID, because *)
(* a goroutine that knows the ID can emit in between.                      *)
(* A panic ends the process: no step follows it.                           *)
(*                                                                         *)
(* IDs made by uuid.New() are the integers 1, 2, ... in the order they are *)
(* made.  A time is kept as its rank among the time.Now() readings made    *)
(* for the same task: times of different tasks are never compared.         *)
(***************************************************************************)
EXTENDS Integers, Sequences, FiniteSets, TLC

\* ---------------------------------------------------------------- bounds
\* Spec: every operation, every kind of task
MaxAgents == 1        \* CreateAgent calls that register an agent
MaxTasks == 1         \* AssignTask calls that record a task
MaxCancels == 1       \* CancelTask calls
\* LifeSpec: the life cycle of agents
LifeAgents == 2
LifeTasks == 1
\* FairSpec: tasks of several agents side by side
RaceAgents == 2
RaceTasks == 2
\* BurstSpec: rapid-fire AssignTask calls
BurstTasks == 11
\* CancelSpec: CancelTask called again
CancelCalls == 2
\* FloodSpec: more events than an event channel holds
FloodTasks == 50
\* ReuseSpec: IDs chosen by the client
ReuseAgents == 2
ReuseTasks == 2
\* PauseSpec: PauseAgent and ResumeAgent
WorkAgents == 1
WorkTasks == 2
ToolAgents == 1
ToolCalls == 3
TwinAgents == 2
TwinCalls == 3
RecordAgents == 1
RecordTasks == 11
RecordCancels == 1
QueryAgents == 1
QueryTasks == 1
QueryCancels == 1
PauseAgents == 1
PauseTasks == 1
PauseEvents == 5      \* events held by a channel when the last pause is called
\* PoolSpec: a Runtime started with several workers
PoolAgents == 1
PoolWorkers == 2
PoolTasks == 2

\* ------------------------------------------------------ program constants
TaskQueueCap == 10    \* make(chan types.Task, 10)
EventChanCap == 100   \* make(chan Event, 100)
maxConcurrent == 1    \* NewRuntime: maxConcurrent: 1

\* ------------------------------------------------------------ vocabulary
NoID == 0                       \* the empty string as an ID
NoTime == 0                     \* the zero time.Time
\* an error value: its text, the value formatted into it, and the sentinel
\* error it is or wraps (what errors.Is finds)
nil == [msg |-> "<nil>", arg |-> "", cause |-> ""]
New(text) == [msg |-> text, arg |-> "", cause |-> text]
Errorf(format, a) == [msg |-> format \o a, arg |-> a, cause |-> ""]
\* fmt.Errorf("<prefix>: %w", err)
Wrap(prefix, err) == [msg |-> prefix \o ": " \o err.msg, arg |-> err.arg, cause |-> err.cause]

ErrAgentNotFound == New("agent not found")
ErrTaskNotFound == New("task not found")
ErrInvalidConfig == New("invalid configuration")
ErrToolNotFound == New("tool not found")

\* Result{}: no Data, no Metadata
NoData == [k \in {} |-> ""]
NoResult == [Data |-> NoData, Metadata |-> NoData]

\* Task{}: the zero Task, held by a worker between two tasks
NoTask == [ID |-> NoID, Type |-> "", Parameters |-> NoData]

Terminal == {"completed", "failed", "cancelled"}

\* a parameter value: its dynamic type and its text
Value(t, v) == [type |-> t, v |-> v]

\* the tasks a client submits, without an ID of the client's choice
TaskInputs ==
    { [ID |-> NoID, Type |-> "conversation",
       Parameters |-> ("input" :> Value("string", "hi"))],
      [ID |-> NoID, Type |-> "conversation", Parameters |-> NoData],
      [ID |-> NoID, Type |-> "bogus",        Parameters |-> NoData] }

\* the configurations a client passes to CreateAgent, with what the
\* collaborators answer: Memory and Knowledge are the errors of
\* memoryMgr.CreateStore and knowledge.CreateContext, ToolsOK says whether
\* the tool manager resolves the declared tool reference, Store whether
\* the store that CreateStore returns is one (or a nil interface)
ErrCollaborator == New("collaborator unavailable")
ValidConfig == [ID |-> NoID, Name |-> "A", Memory |-> nil, Knowledge |-> nil,
                Tool |-> "calc", ToolsOK |-> TRUE, Store |-> TRUE]

\* the callTool calls a handler can make, with what the tool and the memory
\* store answer: Validate and Store are the errors of tool.Validate and
\* memory.Store, Execute is what tool.Execute returns
ErrParams == New("bad parameters")
ErrExecute == New("tool failed")
ErrStore == New("memory store unavailable")
GoodCall == [toolID |-> "calc", Validate |-> nil,
             Execute |-> [result |-> "42", err |-> nil], Store |-> nil]
ToolCallInputs ==
    { GoodCall,
      [GoodCall EXCEPT !.toolID = "nope"],
      [GoodCall EXCEPT !.Validate = ErrParams],
      [GoodCall EXCEPT !.Execute = [result |-> "", err |-> ErrExecute]],
      [GoodCall EXCEPT !.Store = ErrStore] }
AgentConfigs ==
    { ValidConfig,
      [ValidConfig EXCEPT !.Name = ""],
      [ValidConfig EXCEPT !.Memory = ErrCollaborator],
      [ValidConfig EXCEPT !.Knowledge = ErrCollaborator],
      [ValidConfig EXCEPT !.Tool = "nope", !.ToolsOK = FALSE] }

VARIABLES
    agents,       \* manager.agents: agent ID -> index of the baseAgent object
    tasks,        \* manager.tasks: task ID -> TaskStatus
    events,       \* manager.events: agent ID -> index of the event channel
    chans,        \* the event channels ever made: [buf, closed]
    agentStatus,  \* baseAgent.status of every agent object ever made
    agentConfig,  \* baseAgent.config of every agent object ever made
    stopCh,       \* Runtime.stopCh of every object: TRUE when closed
    taskQueue,    \* Runtime.taskQueue of every object
    executionMu,  \* Runtime.executionMu of every object: holder or 0
    worker,       \* the taskWorker goroutines of every object
    goroutines,   \* the goroutines started by AssignTask, in call order
    createCall,   \* the CreateAgent call between opening the channel and emitEvent
    cancelCall,   \* the CancelTask call between its Load and its Store
    ncancel,      \* CancelTask calls made
    clock,        \* time.Now(), per task: the readings made so far
    recorded,     \* the events each Runtime has recorded (printed), in order
    emitted,      \* per task: the events sent or recorded about it, in order
    reply,        \* what the last GetTaskStatus, GetAgentStatus or
                  \* SubscribeToEvents call returned
    toolCalls,    \* the callTool calls made: what went in, what came back,
                  \* and how far the detached memory write has got
    destroyCalls, \* the DestroyAgent calls that are taken step by step: the
                  \* agent loaded, the place in the call, what it returned
    tools,        \* tool manager.tools: tool ID -> Tool
    registered,   \* the RegisterTool calls made: the tool and what was returned
    metadata,     \* Registry.metadata: tool ID -> ToolMetadata
    categories,   \* Registry.categories: category -> set of tool IDs
    tags,         \* Registry.tags: tag -> set of tool IDs
    memories,     \* inMemoryStore.memories: memory ID -> Memory
    stats,        \* inMemoryStore.stats
    consolidations, \* the Consolidate calls made: the place in the call, the
                  \* short-term memories it found, what it decided to delete
    items,        \* baseKnowledge.items: knowledge ID -> Knowledge
    vector,       \* the vector store of the knowledge base: ID -> vector
    added,        \* the AddKnowledge calls made, the Knowledge of the last one
                  \* and what it returned
    panicked      \* the runtime panic that ended the process, or "none"

\* the agent Manager with its agents and Runtimes
agentVars == <<agents, tasks, events, chans, agentStatus, agentConfig, stopCh,
               taskQueue, executionMu, worker, goroutines, createCall, cancelCall,
               ncancel, clock, recorded, emitted, reply, toolCalls, destroyCalls,
               panicked>>

\* the tool manager, the tool Registry, a memory store, the knowledge base
toolVars == <<tools, registered>>
registryVars == <<metadata, categories, tags>>
memoryVars == <<memories, stats, consolidations>>
knowledgeVars == <<items, vector, added>>
libVars == <<toolVars, registryVars, memoryVars, knowledgeVars>>

vars == <<agentVars, libVars>>

rtVars == <<stopCh, taskQueue, executionMu, worker>>

NoCancel == [task |-> NoID]
NoCreate == [agentID |-> NoID]
NoReply == [op |-> "none", id |-> NoID, pc |-> "done", agent |-> 0, val |-> nil,
            err |-> nil, had |-> {}]

Objects == 1..Len(agentStatus)

\* the client may make a call: the process is alive and no call is open
Alive == panicked = "none"
Ready == Alive /\ cancelCall = NoCancel /\ createCall = NoCreate

\* Status() is copying the status of agent object obj under a.mu.RLock,
\* for the GetAgentStatus call in reply
Copying(obj) == reply.op = "GetAgentStatus" /\ reply.pc = "copy" /\ reply.agent = obj

\* assignments to the status of obj made without a.mu, first to Status:
\* they can fall inside the copy Status() is making, and the call keeps
\* track of what the agent's status has been since it started
Overlap(obj, status) ==
    IF Copying(obj)
    THEN [reply EXCEPT !.had = @ \cup {[agentStatus[obj] EXCEPT !.Status = status.Status],
                                       status}]
    ELSE reply

\* ------------------------------------------------------------- Event Bus
Event(type, data) == [Type |-> type, Data |-> data]

\* a non-blocking send on channel ch: dropped when the buffer is full; and
\* a send that always finds room
TrySendAlways(ch, event) == [ch EXCEPT !.buf = Append(@, event)]
TrySend(ch, event) ==
    IF Len(ch.buf) < EventChanCap THEN [ch EXCEPT !.buf = Append(@, event)] ELSE ch

\* manager.emitEvent with the map lookup and the send in one step (a call
\* made by the client, which is the only writer of the events map); and an
\* emitEvent that sends nothing
emitEventSkipped(cs, agentID, event) == cs
emitEvent(cs, agentID, event) ==
    IF agentID \in DOMAIN events
    THEN [cs EXCEPT ![events[agentID]] = TrySend(@, event)]
    ELSE cs

\* an entry of the per-task history: who emitted which event
Emission(src, type) == [src |-> src, Type |-> type]

\* what emitEvent adds to the history of a task: the event, when it is sent
Published(agentID, type) ==
    IF agentID \in DOMAIN events /\ Len(chans[events[agentID]].buf) < EventChanCap
    THEN <<Emission("manager", type)>>
    ELSE << >>

\* Runtime.recordEvent: builds the event and prints it
recordEvent(type, data) == Event(type, data)

\* ---------------------------------------------------------- CreateAgent
\* manager.validateConfig, and a validation that accepts everything
validateConfigSkipped(config) == nil
validateConfig(config) == IF config.Name = "" THEN ErrInvalidConfig ELSE nil

\* manager.getTools: the first unresolved reference fails the call; and a
\* getTools that passes over it
getToolsPassed(config) == nil
getTools(config) ==
    IF config.ToolsOK THEN nil ELSE Wrap("failed to get tool " \o config.Tool, ErrToolNotFound)

\* uuid.New(): an ID no agent object was ever given; and no ID made
NewAgentIDEmpty == NoID
NewAgentID == Len(agentStatus) + 1

\* what CreateAgent(config) returns as its error
CreateAgentRet(config) ==
    IF validateConfig(config) # nil THEN validateConfig(config)
    ELSE IF config.Memory # nil THEN Wrap("failed to create memory store", config.Memory)
    ELSE IF config.Knowledge # nil
         THEN Wrap("failed to create knowledge context", config.Knowledge)
    ELSE IF getTools(config) # nil THEN Wrap("failed to get tools", getTools(config))
    ELSE nil

\* CreateAgent with n workers, limit bounding the agents made.  With split
\* the call stops after opening the event channel (line 94) and CreateEmit
\* ends it; without, the call runs to its return in one step.
Create(config, limit, n, split) ==
    LET id == IF config.ID = NoID THEN NewAgentID ELSE config.ID
        obj == Len(agentStatus) + 1
        ch == Len(chans) + 1
    IN  /\ Ready
        /\ IF CreateAgentRet(config) # nil
           THEN UNCHANGED <<agents, events, chans, agentStatus, agentConfig, rtVars,
                            createCall, recorded>>
           ELSE /\ Len(agentStatus) < limit
                \* baseAgent{...}, then Initialize: status "ready"
                /\ agentStatus' = Append(agentStatus,
                       [ID |-> id, Status |-> "ready", CurrentTask |-> NoID])
                /\ agentConfig' = Append(agentConfig, [config EXCEPT !.ID = id])
                \* NewRuntime, then Start: one taskWorker per unit of maxConcurrent
                /\ stopCh' = Append(stopCh, FALSE)
                /\ taskQueue' = Append(taskQueue, << >>)
                /\ executionMu' = Append(executionMu, 0)
                /\ worker' = Append(worker,
                       [w \in 1..n |-> [pc |-> "select", task |-> NoTask]])
                /\ agents' = (id :> obj) @@ agents
                /\ events' = (id :> ch) @@ events
                /\ chans' = Append(chans,
                       [buf |-> IF split THEN << >> ELSE <<Event("agent_created", id)>>,
                        closed |-> FALSE])
                /\ createCall' = IF split THEN [agentID |-> id] ELSE NoCreate
                /\ recorded' = Append(recorded, <<recordEvent("agent_initialized", id)>>)
        /\ UNCHANGED <<tasks, goroutines, cancelCall, ncancel, clock, emitted, reply,
                       toolCalls, destroyCalls, panicked, libVars>>

\* the whole call, as the code configures it
CreateAgent(config, limit) == Create(config, limit, maxConcurrent, FALSE)

\* lines 37-94: the call up to the open event channel
CreateOpen(config, limit) == Create(config, limit, maxConcurrent, TRUE)

\* lines 97-104: emitEvent(agent_created) and the return
CreateEmit ==
    /\ Alive /\ createCall # NoCreate
    /\ chans' = emitEvent(chans, createCall.agentID,
                          Event("agent_created", createCall.agentID))
    /\ createCall' = NoCreate
    /\ UNCHANGED <<agents, tasks, events, agentStatus, agentConfig, rtVars, goroutines,
                   reply, toolCalls, destroyCalls, cancelCall, ncancel, clock,
                   recorded, emitted, panicked, libVars>>

\* --------------------------------------------------------- DestroyAgent
Remove(f, k) == [x \in DOMAIN f \ {k} |-> f[x]]

\* baseAgent.Stop: status "stopped", then Runtime.Stop closes stopCh
Stop(obj) ==
    /\ agentStatus' = [agentStatus EXCEPT ![obj].Status = "stopped"]
    /\ stopCh' = [stopCh EXCEPT ![obj] = TRUE]

\* line 150, m.agents.Delete(agentID), and the same call left out
agentsDeleteSkipped(agentID) == agents
agentsDelete(agentID) == Remove(agents, agentID)

\* DestroyAgent would close a channel that is closed already
DoubleClose(agentID) ==
    /\ agentID \in DOMAIN agents
    /\ \/ stopCh[agents[agentID]]
       \/ (agentID \in DOMAIN events /\ chans[events[agentID]].closed)

\* what DestroyAgent(agentID) returns (when it does not panic)
DestroyAgentRet(agentID) ==
    IF agentID \notin DOMAIN agents THEN ErrAgentNotFound ELSE nil

DestroyAgent(agentID) ==
    /\ Ready
    /\ IF DestroyAgentRet(agentID) # nil
       THEN UNCHANGED <<agents, events, chans, agentStatus, stopCh, panicked>>
       ELSE IF DoubleClose(agentID)
       THEN /\ panicked' = "close of closed channel"
            /\ UNCHANGED <<agents, events, chans, agentStatus, stopCh>>
       ELSE /\ ~Copying(agents[agentID])    \* Stop waits for a.mu
            /\ Stop(agents[agentID])
            /\ agents' = agentsDelete(agentID)
            /\ IF agentID \in DOMAIN events
               THEN /\ chans' = [chans EXCEPT ![events[agentID]].closed = TRUE]
                    /\ events' = Remove(events, agentID)
               ELSE UNCHANGED <<chans, events>>
            /\ UNCHANGED panicked
    /\ UNCHANGED <<tasks, agentConfig, taskQueue, executionMu, worker, goroutines,
                   reply, toolCalls, destroyCalls, createCall, cancelCall, ncancel,
                   clock, recorded, emitted, libVars>>

\* DestroyAgent taken step by step, for calls that run side by side; limit
\* bounds the calls.  Lines 140-145: Load the agent, or return
\* ErrAgentNotFound.
DestroyLoad(agentID, limit) ==
    /\ Alive /\ Len(destroyCalls) < limit
    /\ destroyCalls' = Append(destroyCalls,
           IF DestroyAgentRet(agentID) # nil
           THEN [agentID |-> agentID, agent |-> 0, pc |-> "done",
                 ret |-> DestroyAgentRet(agentID)]
           ELSE [agentID |-> agentID, agent |-> agents[agentID], pc |-> "stop",
                 ret |-> nil])
    /\ UNCHANGED <<agents, tasks, events, chans, agentStatus, agentConfig, rtVars,
                   goroutines, createCall, cancelCall, ncancel, clock, recorded,
                   emitted, reply, toolCalls, panicked, libVars>>

\* lines 146-148: agent.Stop under a.mu, which closes stopCh whether or not
\* it is closed already
DestroyStop(c) ==
    LET D == destroyCalls[c] IN
    /\ Alive /\ c \in DOMAIN destroyCalls /\ D.pc = "stop"
    /\ ~Copying(D.agent)    \* Stop waits for a.mu
    /\ IF stopCh[D.agent]
       THEN /\ panicked' = "close of closed channel"
            /\ agentStatus' = [agentStatus EXCEPT ![D.agent].Status = "stopped"]
            /\ UNCHANGED <<stopCh, destroyCalls>>
       ELSE /\ Stop(D.agent)
            /\ destroyCalls' = [destroyCalls EXCEPT ![c].pc = "delete"]
            /\ UNCHANGED panicked
    /\ UNCHANGED <<agents, tasks, events, chans, agentConfig, taskQueue, executionMu,
                   worker, goroutines, createCall, cancelCall, ncancel, clock,
                   recorded, emitted, reply, toolCalls, libVars>>

\* lines 150-160: delete the agent, close and delete the event channel that
\* is still in m.events, return nil
DestroyClose(c) ==
    LET D == destroyCalls[c] IN
    /\ Alive /\ c \in DOMAIN destroyCalls /\ D.pc = "delete"
    /\ agents' = agentsDelete(D.agentID)
    /\ IF D.agentID \in DOMAIN events
       THEN /\ chans' = [chans EXCEPT ![events[D.agentID]].closed = TRUE]
            /\ events' = Remove(events, D.agentID)
       ELSE UNCHANGED <<chans, events>>
    /\ destroyCalls' = [destroyCalls EXCEPT ![c].pc = "done"]
    /\ UNCHANGED <<tasks, agentStatus, agentConfig, rtVars, goroutines, createCall,
                   cancelCall, ncancel, clock, recorded, emitted, reply, toolCalls,
                   panicked, libVars>>

\* ------------------------------------------------ PauseAgent, ResumeAgent
\* agent.status.Status = status; and an assignment left out
WithStatusKept(obj, status) == agentStatus
WithStatus(obj, status) == [agentStatus EXCEPT ![obj].Status = status]

\* what PauseAgent(agentID) and ResumeAgent(agentID) return
PauseAgentRet(agentID) ==
    IF agentID \notin DOMAIN agents THEN ErrAgentNotFound ELSE nil

\* PauseAgent with status "paused" and event agent_paused, ResumeAgent with
\* status "running" and event agent_resumed: the two have one body
SetStatus(agentID, status, type) ==
    /\ Ready
    /\ IF PauseAgentRet(agentID) # nil
       THEN UNCHANGED <<agentStatus, chans, reply>>
       ELSE /\ agentStatus' = WithStatus(agents[agentID], status)
            /\ reply' = Overlap(agents[agentID], agentStatus'[agents[agentID]])
            /\ chans' = emitEvent(chans, agentID,
                                  Event(type, agentStatus[agents[agentID]].ID))
    /\ UNCHANGED <<agents, agentConfig, createCall, toolCalls, destroyCalls, tasks,
                   events, rtVars, goroutines, cancelCall, ncancel, clock, recorded,
                   emitted, panicked, libVars>>

PauseAgent(agentID) == SetStatus(agentID, "paused", "agent_paused")

ResumeAgent(agentID) == SetStatus(agentID, "running", "agent_resumed")

\* ----------------------------------------------------------- AssignTask
\* uuid.New(): an ID no task was ever given
NewTaskID == Len(goroutines) + 1

\* m.agents.Load(agentID); and a lookup among all the agents ever made
agentsLoadStale(agentID) ==
    IF \E obj \in Objects : agentStatus[obj].ID = agentID
    THEN [ok |-> TRUE, agent |-> CHOOSE obj \in Objects : agentStatus[obj].ID = agentID]
    ELSE [ok |-> FALSE, agent |-> 0]
agentsLoad(agentID) ==
    IF agentID \in DOMAIN agents
    THEN [ok |-> TRUE, agent |-> agents[agentID]]
    ELSE [ok |-> FALSE, agent |-> 0]

\* what AssignTask(agentID, task) returns
AssignTaskRet(agentID) ==
    IF ~agentsLoad(agentID).ok THEN ErrAgentNotFound ELSE nil

\* the client's part of AssignTask, up to `go func()`; limit bounds the
\* calls.  The task keeps the ID the client gave it, if any.  A call makes
\* room for one more task in clock and emitted, used or not.
AssignTask(agentID, input, limit) ==
    LET id == IF input.ID = NoID THEN NewTaskID ELSE input.ID
        now == IF id \in DOMAIN clock THEN clock[id] + 1 ELSE 1
        task == [ID |-> id, Type |-> input.Type, Parameters |-> input.Parameters]
        taskStatus == [ID |-> id, Status |-> "pending", Progress |-> 0,
                       Result |-> NoResult, Error |-> nil,
                       StartTime |-> now, EndTime |-> NoTime]
    IN  /\ Ready
        /\ IF AssignTaskRet(agentID) # nil
           THEN UNCHANGED <<tasks, chans, goroutines, clock, emitted>>
           ELSE /\ Len(goroutines) < limit
                /\ tasks' = (id :> taskStatus) @@ tasks
                /\ chans' = emitEvent(chans, agentID, Event("task_assigned", id))
                /\ emitted' = [Append(emitted, << >>) EXCEPT
                                  ![id] = @ \o Published(agentID, "task_assigned")]
                /\ goroutines' = Append(goroutines,
                       [pc |-> "start", agentID |-> agentID,
                        agent |-> agentsLoad(agentID).agent,
                        task |-> task, taskStatus |-> taskStatus,
                        result |-> NoResult, err |-> nil, ch |-> 0])
                /\ clock' = [Append(clock, 0) EXCEPT ![id] = now]
        /\ UNCHANGED <<agents, agentConfig, createCall, reply, toolCalls, destroyCalls,
                       events, agentStatus, rtVars, cancelCall, ncancel, recorded,
                       panicked, libVars>>

\* Runtime.EnqueueTask: a non-blocking send on the task queue
EnqueueTask(queue, task) ==
    IF Len(queue) < TaskQueueCap
    THEN [queue |-> Append(queue, task), err |-> nil]
    ELSE [queue |-> queue, err |-> Errorf("task queue is full", "")]

\* baseAgent.Execute: enqueue and answer at once
Execute(queue, task) ==
    LET enq == EnqueueTask(queue, task)
    IN  IF enq.err # nil
        THEN [queue |-> enq.queue, status |-> "error", result |-> NoResult, err |-> enq.err]
        ELSE [queue |-> enq.queue, status |-> "working",
              result |-> [Data |-> ("message" :> "Task received and processing"),
                          Metadata |-> ("status" :> "processing")],
              err |-> nil]

\* goroutine, lines 238-245: agent "working", task "running"
GoRunning(g) ==
    LET G == goroutines[g] IN
    /\ Alive /\ G.pc = "start"
    /\ agentStatus' = [agentStatus EXCEPT ![G.agent].Status = "working",
                                          ![G.agent].CurrentTask = G.task.ID]
    /\ tasks' = (G.task.ID :> [G.taskStatus EXCEPT !.Status = "running"]) @@ tasks
    /\ reply' = Overlap(G.agent, agentStatus'[G.agent])
    /\ goroutines' = [goroutines EXCEPT ![g].pc = "execute",
                                        ![g].taskStatus.Status = "running"]
    /\ UNCHANGED <<agents, agentConfig, createCall, toolCalls, destroyCalls, events,
                   chans, rtVars, cancelCall, ncancel, clock, recorded, emitted,
                   panicked, libVars>>

\* goroutine, lines 248-266: agent.Execute, then the outcome in the local copy
GoExecute(g) ==
    LET G == goroutines[g]
        ex == Execute(taskQueue[G.agent], G.task)
        now == clock[G.task.ID] + 1
        local == IF ex.err # nil
                 THEN [G.taskStatus EXCEPT !.EndTime = now, !.Status = "failed",
                                           !.Error = ex.err]
                 ELSE [G.taskStatus EXCEPT !.EndTime = now, !.Status = "completed",
                                           !.Result = ex.result, !.Progress = 1]
    IN
    /\ Alive /\ G.pc = "execute"
    /\ ~Copying(G.agent)    \* Execute waits for a.mu
    /\ agentStatus' = [agentStatus EXCEPT ![G.agent].Status = ex.status,
                                          ![G.agent].CurrentTask = G.task.ID]
    /\ taskQueue' = [taskQueue EXCEPT ![G.agent] = ex.queue]
    /\ goroutines' = [goroutines EXCEPT ![g].pc = "emit", ![g].taskStatus = local,
                                        ![g].result = ex.result, ![g].err = ex.err]
    /\ clock' = [clock EXCEPT ![G.task.ID] = now]
    /\ UNCHANGED <<agents, agentConfig, createCall, reply, toolCalls, destroyCalls,
                   tasks, events, chans, stopCh, executionMu, worker, cancelCall,
                   ncancel, recorded, emitted, panicked, libVars>>

\* goroutine, emitEvent lines 358-360: look the channel up under the read lock
GoEmitLookup(g) ==
    LET G == goroutines[g] IN
    /\ Alive /\ G.pc = "emit"
    /\ goroutines' = IF G.agentID \in DOMAIN events
                     THEN [goroutines EXCEPT ![g].pc = "send", ![g].ch = events[G.agentID]]
                     ELSE [goroutines EXCEPT ![g].pc = "store"]
    /\ UNCHANGED <<agents, agentConfig, createCall, reply, toolCalls, destroyCalls,
                   tasks, events, chans, agentStatus, rtVars, cancelCall, ncancel,
                   clock, recorded, emitted, panicked, libVars>>

\* goroutine, emitEvent lines 362-369: the non-blocking send
GoEmitSend(g) ==
    LET G == goroutines[g]
        type == IF G.err # nil THEN "task_failed" ELSE "task_completed"
    IN
    /\ Alive /\ G.pc = "send"
    /\ IF chans[G.ch].closed
       THEN /\ panicked' = "send on closed channel"
            /\ UNCHANGED <<chans, emitted, goroutines>>
       ELSE /\ chans' = [chans EXCEPT ![G.ch] = TrySend(@, Event(type, G.task.ID))]
            /\ emitted' = IF Len(chans[G.ch].buf) < EventChanCap
                          THEN [emitted EXCEPT ![G.task.ID] =
                                   Append(@, Emission("manager", type))]
                          ELSE emitted
            /\ goroutines' = [goroutines EXCEPT ![g].pc = "store"]
            /\ UNCHANGED panicked
    /\ UNCHANGED <<agents, agentConfig, createCall, reply, toolCalls, destroyCalls,
                   tasks, events, agentStatus, rtVars, cancelCall, ncancel, clock,
                   recorded, libVars>>

\* goroutine, line 275: m.tasks.Store(task.ID, taskStatus)
GoStore(g) ==
    LET G == goroutines[g] IN
    /\ Alive /\ G.pc = "store"
    /\ tasks' = (G.task.ID :> G.taskStatus) @@ tasks
    /\ goroutines' = [goroutines EXCEPT ![g].pc = "idle"]
    /\ UNCHANGED <<agents, agentConfig, createCall, reply, toolCalls, destroyCalls,
                   events, chans, agentStatus, rtVars, cancelCall, ncancel, clock,
                   recorded, emitted, panicked, libVars>>

\* goroutine, lines 278-281: agent "idle"
GoIdle(g) ==
    LET G == goroutines[g] IN
    /\ Alive /\ G.pc = "idle"
    /\ agentStatus' = [agentStatus EXCEPT ![G.agent].Status = "idle",
                                          ![G.agent].CurrentTask = NoID]
    /\ reply' = Overlap(G.agent, agentStatus'[G.agent])
    /\ goroutines' = [goroutines EXCEPT ![g].pc = "done"]
    /\ UNCHANGED <<agents, agentConfig, createCall, toolCalls, destroyCalls, tasks,
                   events, chans, rtVars, cancelCall, ncancel, clock, recorded,
                   emitted, panicked, libVars>>

\* ----------------------------------------------------------- CancelTask
\* line 295: the task has completed or failed; and a test that never says so
FinishedNever(status) == FALSE
Finished(status) == status = "completed" \/ status = "failed"

\* lines 289-297: Load, and return when there is nothing to cancel
CancelLoad(taskID, limit) ==
    /\ Ready
    /\ ncancel < limit
    /\ ncancel' = ncancel + 1
    /\ IF taskID \notin DOMAIN tasks
       THEN UNCHANGED cancelCall    \* return ErrTaskNotFound
       ELSE IF Finished(tasks[taskID].Status)
       THEN UNCHANGED cancelCall    \* return nil
       ELSE cancelCall' = [task |-> taskID, taskStatus |-> tasks[taskID]]
    /\ UNCHANGED <<agents, agentConfig, createCall, reply, toolCalls, destroyCalls,
                   tasks, events, chans, agentStatus, rtVars, goroutines, clock,
                   recorded, emitted, panicked, libVars>>

\* lines 300-306: mark the copy cancelled and Store it
CancelStore ==
    /\ Alive /\ cancelCall # NoCancel
    /\ tasks' = (cancelCall.task :> [cancelCall.taskStatus EXCEPT
                        !.Status = "cancelled", !.EndTime = clock[cancelCall.task] + 1])
                @@ tasks
    /\ clock' = [clock EXCEPT ![cancelCall.task] = @ + 1]
    /\ cancelCall' = NoCancel
    /\ UNCHANGED <<agents, agentConfig, createCall, reply, toolCalls, destroyCalls,
                   events, chans, agentStatus, rtVars, goroutines, ncancel, recorded,
                   emitted, panicked, libVars>>

\* ------------------------------------------ GetTaskStatus, GetAgentStatus
\* TaskStatus{} and AgentStatus{}
ZeroTaskStatus == [ID |-> NoID, Status |-> "", Progress |-> 0, Result |-> NoResult,
                   Error |-> nil, StartTime |-> NoTime, EndTime |-> NoTime]
ZeroAgentStatus == [ID |-> NoID, Status |-> "", CurrentTask |-> NoID]

\* m.tasks.Load(taskID); and a lookup that misses the records of ended tasks
tasksLoadLive(taskID) ==
    IF taskID \in DOMAIN tasks /\ tasks[taskID].Status \notin Terminal
    THEN [ok |-> TRUE, value |-> tasks[taskID]]
    ELSE [ok |-> FALSE, value |-> ZeroTaskStatus]
tasksLoad(taskID) ==
    IF taskID \in DOMAIN tasks
    THEN [ok |-> TRUE, value |-> tasks[taskID]]
    ELSE [ok |-> FALSE, value |-> ZeroTaskStatus]

\* what GetTaskStatus(taskID) returns
GetTaskStatusRet(taskID) ==
    IF ~tasksLoad(taskID).ok
    THEN [val |-> ZeroTaskStatus, err |-> ErrTaskNotFound]
    ELSE [val |-> tasksLoad(taskID).value, err |-> nil]

GetTaskStatus(taskID) ==
    /\ Alive /\ reply.pc = "done"
    /\ reply' = [op |-> "GetTaskStatus", id |-> taskID, pc |-> "done", agent |-> 0,
                 val |-> GetTaskStatusRet(taskID).val,
                 err |-> GetTaskStatusRet(taskID).err, had |-> {}]
    /\ UNCHANGED <<agents, tasks, events, chans, agentStatus, agentConfig, rtVars,
                   goroutines, createCall, cancelCall, ncancel, clock, recorded,
                   emitted, toolCalls, destroyCalls, panicked, libVars>>

\* GetAgentStatus, lines 321-327: Load the agent and enter Status(), which
\* takes a.mu.RLock and starts to copy a.status
GetAgentStatus(agentID) ==
    /\ Alive /\ reply.pc = "done"
    /\ reply' = IF ~agentsLoad(agentID).ok
                THEN [op |-> "GetAgentStatus", id |-> agentID, pc |-> "done",
                      agent |-> 0, val |-> ZeroAgentStatus, err |-> ErrAgentNotFound,
                      had |-> {}]
                ELSE [op |-> "GetAgentStatus", id |-> agentID, pc |-> "copy",
                      agent |-> agentsLoad(agentID).agent,
                      val |-> agentStatus[agentsLoad(agentID).agent], err |-> nil,
                      had |-> {agentStatus[agentsLoad(agentID).agent]}]
    /\ UNCHANGED <<agents, tasks, events, chans, agentStatus, agentConfig, rtVars,
                   goroutines, createCall, cancelCall, ncancel, clock, recorded,
                   emitted, toolCalls, destroyCalls, panicked, libVars>>

\* Status(), lines 452-454: the rest of the copy and the return.  The
\* assignments made to a.status without a.mu (lines 171, 192, 239-240,
\* 279-280) race with the copy: each field that was still to be copied
\* comes from the status as it is now.
StatusReturn ==
    /\ Alive /\ reply.pc = "copy"
    /\ \E late \in SUBSET {"Status", "CurrentTask"} :
          reply' = [reply EXCEPT
                       !.pc = "done",
                       !.val = [f \in DOMAIN reply.val |->
                                   IF f \in late THEN agentStatus[reply.agent][f]
                                   ELSE reply.val[f]]]
    /\ UNCHANGED <<agents, tasks, events, chans, agentStatus, agentConfig, rtVars,
                   goroutines, createCall, cancelCall, ncancel, clock, recorded,
                   emitted, toolCalls, destroyCalls, panicked, libVars>>

\* ------------------------------------------------------ SubscribeToEvents
\* what SubscribeToEvents(agentID) returns: the channel m.events holds
SubscribeToEventsRet(agentID) ==
    IF agentID \notin DOMAIN events
    THEN [val |-> 0, err |-> ErrAgentNotFound]
    ELSE [val |-> events[agentID], err |-> nil]

SubscribeToEvents(agentID) ==
    /\ Alive /\ reply.pc = "done"
    /\ reply' = [op |-> "SubscribeToEvents", id |-> agentID, pc |-> "done",
                 agent |-> 0, val |-> SubscribeToEventsRet(agentID).val,
                 err |-> SubscribeToEventsRet(agentID).err, had |-> {}]
    /\ UNCHANGED <<agents, tasks, events, chans, agentStatus, agentConfig, rtVars,
                   goroutines, createCall, cancelCall, ncancel, clock, recorded,
                   emitted, toolCalls, destroyCalls, panicked, libVars>>

\* -------------------------------------------------------------- Runtime
HasString(task, name) ==
    name \in DOMAIN task.Parameters /\ task.Parameters[name].type = "string"

handleConversation(task) ==
    IF ~HasString(task, "input")
    THEN [result |-> NoResult, err |-> Errorf("missing required parameter: ", "input")]
    ELSE [result |-> [Data |-> ("response" :>
                                  ("This is a response to: " \o task.Parameters["input"].v)),
                      Metadata |-> ("model" :> "gpt-4")],
          err |-> nil]

handleResearch(task) ==
    IF ~("topics" \in DOMAIN task.Parameters
         /\ task.Parameters["topics"].type = "[]string")
    THEN [result |-> NoResult, err |-> Errorf("missing required parameter: ", "topics")]
    ELSE [result |-> [Data |-> ("research_results" :>
                                  ("Research results for " \o task.Parameters["topics"].v)),
                      Metadata |-> ("topics_count" :> "1")],
          err |-> nil]

handleAnalysis(task) ==
    IF "data" \notin DOMAIN task.Parameters
    THEN [result |-> NoResult, err |-> Errorf("missing required parameter: ", "data")]
    ELSE [result |-> [Data |-> ("analysis_result" :> "Analysis completed successfully"),
                      Metadata |-> ("data_points" :> "100")],
          err |-> nil]

\* Runtime.executeTask: the switch on task.Type, under executionMu
executeTask(task) ==
    CASE task.Type = "conversation" -> handleConversation(task)
      [] task.Type = "research" -> handleResearch(task)
      [] task.Type = "analysis" -> handleAnalysis(task)
      [] OTHER -> [result |-> NoResult, err |-> Errorf("unknown task type: ", task.Type)]

\* taskWorker, case <-r.stopCh: the worker returns
WorkerStop(obj, w) ==
    /\ Alive /\ worker[obj][w].pc = "select"
    /\ stopCh[obj]
    /\ worker' = [worker EXCEPT ![obj][w].pc = "stopped"]
    /\ UNCHANGED <<agents, agentConfig, createCall, reply, toolCalls, destroyCalls,
                   tasks, events, chans, agentStatus, stopCh, taskQueue, executionMu,
                   goroutines, cancelCall, ncancel, clock, recorded, emitted, panicked,
                   libVars>>

\* what a receive leaves in the channel, and a receive that leaves the
\* value where it was
ReceivedKept(queue) == queue
Received(queue) == Tail(queue)

\* taskWorker, case task := <-r.taskQueue, and processTask up to task_started
WorkerDequeue(obj, w) ==
    /\ Alive /\ worker[obj][w].pc = "select"
    /\ taskQueue[obj] # << >>
    /\ taskQueue' = [taskQueue EXCEPT ![obj] = Received(@)]
    /\ worker' = [worker EXCEPT ![obj][w] = [pc |-> "lock", task |-> Head(taskQueue[obj])]]
    /\ recorded' = [recorded EXCEPT ![obj] =
                        Append(@, recordEvent("task_started", Head(taskQueue[obj]).ID))]
    /\ emitted' = [emitted EXCEPT ![Head(taskQueue[obj]).ID] =
                        Append(@, Emission("runtime", "task_started"))]
    /\ UNCHANGED <<agents, agentConfig, createCall, reply, toolCalls, destroyCalls,
                   tasks, events, chans, agentStatus, stopCh, executionMu, goroutines,
                   cancelCall, ncancel, clock, panicked, libVars>>

\* sync.Mutex: Lock returns when no one holds the mutex; and a Lock that
\* returns at once
LockFreeAlways(mu) == TRUE
LockFree(mu) == mu = 0

\* executeTask: r.executionMu.Lock()
WorkerLock(obj, w) ==
    /\ Alive /\ worker[obj][w].pc = "lock"
    /\ LockFree(executionMu[obj])
    /\ executionMu' = [executionMu EXCEPT ![obj] = w]
    /\ worker' = [worker EXCEPT ![obj][w].pc = "handle"]
    /\ UNCHANGED <<agents, agentConfig, createCall, reply, toolCalls, destroyCalls,
                   tasks, events, chans, agentStatus, stopCh, taskQueue, goroutines,
                   cancelCall, ncancel, clock, recorded, emitted, panicked, libVars>>

\* taskWorker's loop after processTask: back to the select, whatever the
\* handler returned; and a loop that a handler error ends
AfterTaskFatal(err) == IF err # nil THEN "stopped" ELSE "select"
AfterTask(err) == "select"

\* the handler body, the deferred Unlock, and processTask's closing event
WorkerHandle(obj, w) ==
    LET task == worker[obj][w].task
        out == executeTask(task)
    IN
    /\ Alive /\ worker[obj][w].pc = "handle"
    /\ executionMu' = [executionMu EXCEPT ![obj] = 0]
    /\ worker' = [worker EXCEPT ![obj][w] = [pc |-> AfterTask(out.err), task |-> NoTask]]
    /\ recorded' = [recorded EXCEPT ![obj] = Append(@,
           IF out.err # nil
           THEN recordEvent("task_failed", [task_id |-> task.ID, error |-> out.err])
           ELSE recordEvent("task_completed", [task_id |-> task.ID, result |-> out.result]))]
    /\ emitted' = [emitted EXCEPT ![task.ID] = Append(@, Emission("runtime",
           IF out.err # nil THEN "task_failed" ELSE "task_completed"))]
    /\ UNCHANGED <<agents, agentConfig, createCall, reply, toolCalls, destroyCalls,
                   tasks, events, chans, agentStatus, stopCh, taskQueue, goroutines,
                   cancelCall, ncancel, clock, panicked, libVars>>

\* ------------------------------------------------------------- callTool
\* the tools of a Runtime: the ones CreateAgent resolved (r.tools)
Tools(obj) == {agentConfig[obj].Tool}

\* callTool, lines 497-540: what the call has come to before the memory
\* write
ToolOutcome(obj, call) ==
    IF call.toolID \notin Tools(obj)
    THEN [result |-> "", err |-> Errorf("tool not found: ", call.toolID),
          events |-> << >>]
    ELSE IF call.Validate # nil
    THEN [result |-> "", err |-> Wrap("invalid parameters", call.Validate),
          events |-> << >>]
    ELSE IF call.Execute.err # nil
    THEN [result |-> "", err |-> call.Execute.err,
          events |-> <<recordEvent("tool_call_started", call.toolID),
                       recordEvent("tool_call_failed", call.toolID)>>]
    ELSE [result |-> call.Execute.result, err |-> nil,
          events |-> <<recordEvent("tool_call_started", call.toolID),
                       recordEvent("tool_call_completed", call.toolID)>>]

\* what callTool returns, line 566; and a callTool that waits for Store and
\* returns its error
callToolRetAfterStore(obj, call) ==
    IF ToolOutcome(obj, call).err = nil /\ agentConfig[obj].Store /\ call.Store # nil
    THEN [result |-> "", err |-> call.Store]
    ELSE [result |-> ToolOutcome(obj, call).result, err |-> ToolOutcome(obj, call).err]
callToolRet(obj, call) ==
    [result |-> ToolOutcome(obj, call).result, err |-> ToolOutcome(obj, call).err]

\* callTool: the whole call, which starts the memory write (go func, line
\* 559) and does not wait for it; limit bounds the calls
callTool(obj, call, limit) ==
    /\ Alive /\ Len(toolCalls) < limit
    /\ toolCalls' = Append(toolCalls,
           [agent |-> obj, call |-> call,
            result |-> callToolRet(obj, call).result,
            err |-> callToolRet(obj, call).err,
            store |-> IF ToolOutcome(obj, call).err = nil /\ agentConfig[obj].Store
                      THEN "running" ELSE "none"])
    /\ recorded' = [recorded EXCEPT ![obj] = @ \o ToolOutcome(obj, call).events]
    /\ UNCHANGED <<agents, tasks, events, chans, agentStatus, agentConfig, rtVars,
                   goroutines, createCall, cancelCall, ncancel, clock, emitted, reply,
                   destroyCalls, panicked, libVars>>

\* the goroutine of lines 559-563: r.memory.Store returns, and its error
\* is printed
MemoryStore(i) ==
    /\ Alive /\ i \in DOMAIN toolCalls
    /\ toolCalls[i].store = "running"
    /\ toolCalls' = [toolCalls EXCEPT ![i].store =
                         IF toolCalls[i].call.Store # nil THEN "failed" ELSE "stored"]
    /\ UNCHANGED <<agents, tasks, events, chans, agentStatus, agentConfig, rtVars,
                   goroutines, createCall, cancelCall, ncancel, clock, recorded,
                   emitted, reply, destroyCalls, panicked, libVars>>

Init ==
    /\ agents = NoData
    /\ tasks = NoData
    /\ events = NoData
    /\ chans = << >>
    /\ agentStatus = << >>
    /\ agentConfig = << >>
    /\ createCall = NoCreate
    /\ stopCh = << >>
    /\ taskQueue = << >>
    /\ executionMu = << >>
    /\ worker = << >>
    /\ goroutines = << >>
    /\ cancelCall = NoCancel
    /\ ncancel = 0
    /\ clock = << >>
    /\ recorded = << >>
    /\ emitted = << >>
    /\ reply = NoReply
    /\ toolCalls = << >>
    /\ destroyCalls = << >>
    /\ panicked = "none"
    /\ tools = NoData
    /\ registered = << >>
    /\ metadata = NoData
    /\ categories = NoData
    /\ tags = NoData
    /\ memories = NoData
    /\ stats = [TotalItems |-> 0, ShortTerm |-> 0, LongTerm |-> 0, WorkingItems |-> 0]
    /\ consolidations = << >>
    /\ items = NoData
    /\ vector = NoData
    /\ added = [n |-> 0, k |-> [ID |-> NoID, Content |-> "<nil>", Vector |-> << >>],
                err |-> nil]

\* the steps of the goroutine started by the g-th AssignTask
GoStep(g) ==
    /\ g \in DOMAIN goroutines
    /\ \/ GoRunning(g)
       \/ GoExecute(g)
       \/ GoEmitLookup(g)
       \/ GoEmitSend(g)
       \/ GoStore(g)
       \/ GoIdle(g)

taskWorker ==
    \E obj \in Objects : \E w \in DOMAIN worker[obj] :
        \/ WorkerStop(obj, w)
        \/ WorkerDequeue(obj, w)
        \/ WorkerLock(obj, w)
        \/ WorkerHandle(obj, w)

\* Every operation, with every kind of configuration and task.
Next ==
    \/ \E config \in AgentConfigs : CreateAgent(config, MaxAgents)
    \/ \E agentID \in 1..MaxAgents : DestroyAgent(agentID)
    \/ \E agentID \in 1..MaxAgents : \E input \in TaskInputs :
           AssignTask(agentID, input, MaxTasks)
    \/ \E taskID \in 1..MaxTasks : CancelLoad(taskID, MaxCancels)
    \/ CancelStore
    \/ \E g \in 1..MaxTasks : GoStep(g)
    \/ taskWorker

Spec == Init /\ [][Next]_vars

HiInput == [ID |-> NoID, Type |-> "conversation",
            Parameters |-> ("input" :> Value("string", "hi"))]

\* The life cycle of agents.  The Manager and the goroutine of a task never
\* read the task's Type or Parameters: one kind of task stands for all.
LifeNext ==
    \/ \E config \in AgentConfigs : CreateAgent(config, LifeAgents)
    \/ \E agentID \in 1..LifeAgents : DestroyAgent(agentID)
    \/ \E agentID \in 1..LifeAgents : AssignTask(agentID, HiInput, LifeTasks)
    \/ \E g \in 1..LifeTasks : GoStep(g)
    \/ taskWorker

LifeSpec == Init /\ [][LifeNext]_vars

\* Tasks of several agents side by side.
FairNext ==
    \/ CreateAgent(ValidConfig, RaceAgents)
    \/ \E agentID \in 1..RaceAgents : DestroyAgent(agentID)
    \/ \E agentID \in 1..RaceAgents : AssignTask(agentID, HiInput, RaceTasks)
    \/ \E g \in 1..RaceTasks : GoStep(g)
    \/ taskWorker

\* The Go scheduler runs every runnable goroutine: the goroutine of a task
\* and the workers are never starved.
FairSpec ==
    /\ Init /\ [][FairNext]_vars
    /\ \A g \in 1..RaceTasks : WF_vars(GoStep(g))
    /\ WF_vars(taskWorker)

\* Rapid-fire AssignTask calls against a worker that falls behind: every
\* call is made when the goroutine of the call before has ended, and the
\* worker takes a task only when the queue is full.
BurstNext ==
    \/ CreateAgent(ValidConfig, MaxAgents)
    \/ \E agentID \in 1..MaxAgents :
          /\ \A g \in DOMAIN goroutines : goroutines[g].pc = "done"
          /\ AssignTask(agentID, HiInput, BurstTasks)
    \/ \E g \in 1..BurstTasks : GoStep(g)
    \/ \E obj \in Objects : \E w \in 1..maxConcurrent :
          \/ Len(taskQueue[obj]) = TaskQueueCap /\ WorkerDequeue(obj, w)
          \/ WorkerLock(obj, w)
          \/ WorkerHandle(obj, w)

BurstSpec == Init /\ [][BurstNext]_vars

\* One task and the CancelTask calls made about it.
CancelNext ==
    \/ CreateAgent(ValidConfig, MaxAgents)
    \/ \E agentID \in 1..MaxAgents : DestroyAgent(agentID)
    \/ \E agentID \in 1..MaxAgents : AssignTask(agentID, HiInput, MaxTasks)
    \/ \E taskID \in 1..MaxTasks : CancelLoad(taskID, CancelCalls)
    \/ CancelStore
    \/ \E g \in 1..MaxTasks : GoStep(g)
    \/ taskWorker

CancelSpec == Init /\ [][CancelNext]_vars

\* Events nobody consumes.  The client works with the agent it made last
\* and makes every call when the goroutine of the call before has ended.
\* The workers are not scheduled: the first ten tasks of an agent fill its
\* queue and every later one is refused there.
Quiet == \A g \in DOMAIN goroutines : goroutines[g].pc = "done"

FloodNext ==
    \/ Quiet /\ CreateAgent(ValidConfig, MaxAgents)
    \/ Quiet /\ AssignTask(Len(agentStatus), HiInput, FloodTasks)
    \/ \E g \in 1..FloodTasks : GoStep(g)

FloodSpec == Init /\ [][FloodNext]_vars

\* the IDs a client can pass: none, or one it has seen
Seen(ids) == {NoID} \cup ids

\* an ID of the client's own making, which uuid.New() never returns
OwnID == -1

\* Agents and tasks under IDs of the client's choice: CreateAgent and
\* AssignTask keep a config.ID and a task.ID that are not empty.  The
\* goroutine of a task can be running while CreateAgent is called, so the
\* call is taken in its two parts.  What the workers do with the queued
\* tasks is left out: the Manager never reads it.
ReuseNext ==
    \/ \E id \in Seen({agentStatus[obj].ID : obj \in Objects}) :
           CreateOpen([ValidConfig EXCEPT !.ID = id], ReuseAgents)
    \/ CreateEmit
    \/ \E agentID \in 1..ReuseAgents : DestroyAgent(agentID)
    \/ \E agentID \in 1..ReuseAgents : Quiet /\ SubscribeToEvents(agentID)
    \/ \E agentID \in 1..ReuseAgents : \E id \in Seen(DOMAIN tasks) :
           AssignTask(agentID, [HiInput EXCEPT !.ID = id], ReuseTasks)
    \/ \E g \in 1..ReuseTasks : GoStep(g)

ReuseSpec == Init /\ [][ReuseNext]_vars

\* the event channel of a registered agent holds fewer than n events
Holds(agentID, n) ==
    agentID \in DOMAIN events => Len(chans[events[agentID]].buf) < n

\* the agent IDs of a client that works with the agent it made last: that
\* ID, and an ID no agent has
LastMade == {NoID} \cup {agentStatus[obj].ID : obj \in {Len(agentStatus)} \ {0}}

\* The records of tasks assigned one after the other, up to the one the
\* full queue refuses.  The client cancels the task it assigned last, at
\* any point of the task's goroutine.  The workers are not scheduled.
RecordNext ==
    \/ Quiet /\ CreateAgent(ValidConfig, RecordAgents)
    \/ \E agentID \in LastMade : Quiet /\ AssignTask(agentID, HiInput, RecordTasks)
    \/ CancelLoad(Len(goroutines), RecordCancels)
    \/ CancelStore
    \/ \E g \in 1..RecordTasks : GoStep(g)

RecordSpec == Init /\ [][RecordNext]_vars

\* Queries made while agents and tasks come and go.  The client works with
\* the agent it made last; it cancels the task it assigned last and asks
\* for the agent's status at any point of the task's goroutine, and makes
\* its other calls between two tasks.  What the workers do with the queued
\* tasks is left out: no query reads it.
QueryNext ==
    \/ Quiet /\ CreateAgent(ValidConfig, QueryAgents)
    \/ \E agentID \in LastMade : Quiet /\ DestroyAgent(agentID)
    \/ \E agentID \in LastMade : Quiet /\ AssignTask(agentID, HiInput, QueryTasks)
    \/ CancelLoad(Len(goroutines), QueryCancels)
    \/ CancelStore
    \/ \E taskID \in 1..QueryTasks : Quiet /\ GetTaskStatus(taskID)
    \/ \E agentID \in LastMade : GetAgentStatus(agentID)
    \/ StatusReturn
    \/ \E g \in 1..QueryTasks : GoStep(g)

QuerySpec == Init /\ [][QueryNext]_vars

\* Agents made with and without an ID of the client's choice, paused and
\* resumed between their tasks: the client makes a call when the goroutine
\* of the AssignTask before has ended.  What the workers do with the queued
\* tasks is left out: PauseAgent and ResumeAgent never read it.
PauseNext ==
    \/ \E id \in {NoID, OwnID} :
           Quiet /\ CreateAgent([ValidConfig EXCEPT !.ID = id], PauseAgents)
    \/ \E agentID \in LastMade : Quiet /\ DestroyAgent(agentID)
    \/ \E agentID \in LastMade :
           Quiet /\ Holds(agentID, PauseEvents) /\ PauseAgent(agentID)
    \/ \E agentID \in LastMade :
           Quiet /\ Holds(agentID, PauseEvents) /\ ResumeAgent(agentID)
    \/ \E agentID \in LastMade : Quiet /\ AssignTask(agentID, HiInput, PauseTasks)
    \/ \E g \in 1..PauseTasks : GoStep(g)

PauseSpec == Init /\ [][PauseNext]_vars

\* Agents whose Runtime is started with PoolWorkers workers (maxConcurrent
\* is a field of Runtime that Start reads, line 308).  Every AssignTask call
\* is made when the goroutine of the call before has ended; the workers run
\* as they like.
PoolNext ==
    \/ Create(ValidConfig, PoolAgents, PoolWorkers, FALSE)
    \/ \E agentID \in 1..PoolAgents :
          /\ \A g \in DOMAIN goroutines : goroutines[g].pc = "done"
          /\ AssignTask(agentID, HiInput, PoolTasks)
    \/ \E g \in 1..PoolTasks : GoStep(g)
    \/ \E obj \in Objects : \E w \in DOMAIN worker[obj] :
          \/ WorkerDequeue(obj, w)
          \/ WorkerLock(obj, w)
          \/ WorkerHandle(obj, w)

PoolSpec == Init /\ [][PoolNext]_vars

\* a step of worker w of agent object obj while the Runtime runs
WorkerStep(obj, w) ==
    /\ obj \in Objects /\ w \in DOMAIN worker[obj]
    /\ \/ WorkerDequeue(obj, w)
       \/ WorkerLock(obj, w)
       \/ WorkerHandle(obj, w)

\* Tasks of every kind, good and bad, handed to agents that are never
\* destroyed.  Every AssignTask call is made when the goroutine of the call
\* before has ended.
WorkNext ==
    \/ Quiet /\ CreateAgent(ValidConfig, WorkAgents)
    \/ \E agentID \in LastMade : \E input \in TaskInputs :
          Quiet /\ AssignTask(agentID, input, WorkTasks)
    \/ \E g \in 1..WorkTasks : GoStep(g)
    \/ \E obj \in 1..WorkAgents : \E w \in 1..maxConcurrent : WorkerStep(obj, w)

\* The Go scheduler runs every runnable goroutine: a worker that can take
\* a step takes one.
WorkSpec ==
    /\ Init /\ [][WorkNext]_vars
    /\ \A g \in 1..WorkTasks : WF_vars(GoStep(g))
    /\ \A obj \in 1..WorkAgents : \A w \in 1..maxConcurrent : WF_vars(WorkerStep(obj, w))

\* DestroyAgent calls that run side by side.
TwinNext ==
    \/ CreateAgent(ValidConfig, TwinAgents)
    \/ \E agentID \in 1..TwinAgents : DestroyLoad(agentID, TwinCalls)
    \/ \E c \in 1..TwinCalls : DestroyStop(c)
    \/ \E c \in 1..TwinCalls : DestroyClose(c)

TwinSpec == Init /\ [][TwinNext]_vars

\* Tool calls of Runtimes with and without a memory store.
ToolNext ==
    \/ \E store \in BOOLEAN :
          CreateAgent([ValidConfig EXCEPT !.Store = store], ToolAgents)
    \/ \E obj \in Objects : \E call \in ToolCallInputs : callTool(obj, call, ToolCalls)
    \/ \E i \in 1..ToolCalls : MemoryStore(i)

ToolSpec == Init /\ [][ToolNext]_vars

\* ------------------------------------------------------------------ claims
\* the agent object a task was assigned to (task IDs follow the call order)
AgentOf(t) == goroutines[t].agent

\* Stop has run on an agent object with this ID: DestroyAgent went through
Destroyed(agentID) ==
    \E obj \in Objects : agentStatus[obj].ID = agentID /\ stopCh[obj]

\* the events a Runtime recorded about task t with the given type
Recorded(t, type) ==
    { i \in DOMAIN recorded[AgentOf(t)] :
         /\ recorded[AgentOf(t)][i].Type = type
         /\ recorded[AgentOf(t)][i].Data = IF type = "task_started" THEN t
                                           ELSE recorded[AgentOf(t)][i].Data
         /\ type = "task_started" \/ recorded[AgentOf(t)][i].Data.task_id = t }

\* C1: once a task's status is completed, failed or cancelled, no later
\* write changes it.
TerminalIsFinal ==
    [][\A t \in DOMAIN tasks :
          tasks[t].Status \in Terminal => tasks'[t].Status = tasks[t].Status]_vars

\* C2: every task recorded by AssignTask eventually has a terminal status,
\* unless its agent is destroyed first.
EventuallyTerminal ==
    \A t \in 1..RaceTasks :
        (t \in DOMAIN tasks) ~>
            (t \in DOMAIN tasks /\ (tasks[t].Status \in Terminal \/ stopCh[AgentOf(t)]))

\* C3: a task is completed only after a worker has dequeued it and its
\* handler has returned without error.
CompletedOnlyAfterHandler ==
    \A t \in DOMAIN tasks :
        tasks[t].Status = "completed" => Recorded(t, "task_completed") # {}

KnownTypes == {"conversation", "research", "analysis"}

\* the status of task t is the outcome of its execution
Executed(t) == tasks[t].Status \in {"completed", "failed"}

\* C4: a task of an unknown type ends failed, with an UnknownTaskType
\* error that carries the type.
UnknownTypeFails ==
    \A t \in DOMAIN tasks :
        (goroutines[t].task.Type \notin KnownTypes /\ Executed(t)) =>
            /\ tasks[t].Status = "failed"
            /\ tasks[t].Error = Errorf("unknown task type: ", goroutines[t].task.Type)

\* C5: a conversation task without the parameter input ends failed, with
\* an error that names input.
MissingInputFails ==
    \A t \in DOMAIN tasks :
        (/\ goroutines[t].task.Type = "conversation"
         /\ "input" \notin DOMAIN goroutines[t].task.Parameters
         /\ Executed(t)) =>
            /\ tasks[t].Status = "failed"
            /\ tasks[t].Error.arg = "input"

\* C6: a conversation task with a string input ends completed, and its
\* Result has a non-empty entry under response.
ConversationResponds ==
    \A t \in DOMAIN tasks :
        (/\ goroutines[t].task.Type = "conversation"
         /\ HasString(goroutines[t].task, "input")
         /\ Executed(t)) =>
            /\ tasks[t].Status = "completed"
            /\ "response" \in DOMAIN tasks[t].Result.Data
            /\ tasks[t].Result.Data["response"] # ""

ErrQueueFull == Errorf("task queue is full", "")

\* C7: when the task queue of an agent is full, AssignTask for that agent
\* returns QueueFull.
QueueFullReturned ==
    \A agentID \in DOMAIN agents :
        Len(taskQueue[agents[agentID]]) = TaskQueueCap =>
            AssignTaskRet(agentID) = ErrQueueFull

\* the tasks a Runtime has started, in the order of their task_started
Started(obj) ==
    LET starts == SelectSeq(recorded[obj], LAMBDA e : e.Type = "task_started")
    IN  [i \in DOMAIN starts |-> starts[i].Data]

\* C8: tasks of one agent are started in the order of their AssignTask
\* calls (task IDs follow the call order).
FIFOStart ==
    \A obj \in Objects :
        \A i, j \in DOMAIN Started(obj) :
            i < j => Started(obj)[i] < Started(obj)[j]

EndTypes == {"task_completed", "task_failed"}

\* C9: no task_completed or task_failed of a task is emitted before the
\* task_started of that task.
StartedBeforeEnd ==
    \A t \in DOMAIN emitted :
        \A j \in DOMAIN emitted[t] :
            emitted[t][j].Type \in EndTypes =>
                \E i \in 1..(j - 1) : emitted[t][i].Type = "task_started"

\* C10: DestroyAgent of a registered agent succeeds without closing a
\* closed channel; DestroyAgent of the same ID after that returns
\* AgentNotFound and closes nothing.
DestroyTwice ==
    /\ panicked # "close of closed channel"
    /\ \A agentID \in 1..LifeAgents :
          /\ agentID \in DOMAIN agents =>
                DestroyAgentRet(agentID) = nil /\ ~DoubleClose(agentID)
          /\ Destroyed(agentID) =>
                DestroyAgentRet(agentID) = ErrAgentNotFound /\ ~DoubleClose(agentID)

\* C10 happens: an agent was destroyed and the call is made again
DestroyedOnce ==
    \E agentID \in 1..LifeAgents :
        /\ Destroyed(agentID)
        /\ agentID \notin DOMAIN agents
        /\ agentID \notin DOMAIN events

\* the workers of a Runtime that are inside a handler body
InHandler(obj) == { w \in DOMAIN worker[obj] : worker[obj][w].pc = "handle" }

\* C11: at most one worker of an agent is inside a handler body at any
\* time, however many workers the Runtime was started with; the worker
\* inside is the holder of executionMu.
HandlersSerialized ==
    \A obj \in Objects :
        /\ Cardinality(InHandler(obj)) <= 1
        /\ \A w \in InHandler(obj) : executionMu[obj] = w

\* C11 happens: one worker is inside a handler body while another worker
\* of the same agent holds a task and waits for the mutex
HandlerContended ==
    \E obj \in Objects : \E w1, w2 \in DOMAIN worker[obj] :
        worker[obj][w1].pc = "handle" /\ worker[obj][w2].pc = "lock"

\* the workers that hold task t
Holders(t) ==
    { w \in DOMAIN worker[AgentOf(t)] : worker[AgentOf(t)][w].task.ID = t }

\* the places of task t in the queue of its agent
Queued(t) ==
    { i \in DOMAIN taskQueue[AgentOf(t)] : taskQueue[AgentOf(t)][i].ID = t }

\* C12: a task accepted into the queue is dequeued at most once and its
\* handler is run by one worker: it is never held by two workers, never
\* started twice, never ended twice, and never still queued once started.
OneWorkerPerTask ==
    \A t \in DOMAIN goroutines :
        /\ Cardinality(Holders(t)) <= 1
        /\ Cardinality(Recorded(t, "task_started")) <= 1
        /\ Cardinality(Recorded(t, "task_completed") \cup Recorded(t, "task_failed")) <= 1
        /\ Recorded(t, "task_started") # {} => Queued(t) = {}
        /\ Holders(t) # {} => Recorded(t, "task_started") # {}

\* C12 happens: with two workers reading the queue empty-handed, one has
\* taken a task and run its handler to the end
HandledByOne ==
    \E t \in DOMAIN goroutines :
        /\ Cardinality(DOMAIN worker[AgentOf(t)]) > 1
        /\ Recorded(t, "task_started") # {}
        /\ Recorded(t, "task_completed") \cup Recorded(t, "task_failed") # {}

\* C13: an event channel never holds more than 100 events, and a step
\* either leaves what it holds as it is or adds one event at its end: a
\* send on a full channel drops the event and the sender goes on.
EventsBoundedInOrder ==
    [][/\ \A c \in DOMAIN chans' : Len(chans'[c].buf) <= EventChanCap
       /\ \A c \in DOMAIN chans :
             \/ chans'[c].buf = chans[c].buf
             \/ /\ Len(chans'[c].buf) = Len(chans[c].buf) + 1
                /\ SubSeq(chans'[c].buf, 1, Len(chans[c].buf)) = chans[c].buf]_vars

\* C13 happens: a channel holds 100 events and the goroutine of a task has
\* gone on to its end after its task_completed or task_failed was dropped
EventDropped ==
    \E g \in DOMAIN goroutines :
        /\ goroutines[g].pc = "done"
        /\ goroutines[g].ch # 0
        /\ Len(chans[goroutines[g].ch].buf) = EventChanCap
        /\ \A i \in DOMAIN emitted[goroutines[g].task.ID] :
               ~(/\ emitted[goroutines[g].task.ID][i].src = "manager"
                 /\ emitted[goroutines[g].task.ID][i].Type \in EndTypes)

\* the step is the Store of a CancelTask call that loaded the record the
\* table still holds for task t
CancelWrites(t) ==
    /\ cancelCall # NoCancel /\ cancelCall' = NoCancel
    /\ cancelCall.task = t
    /\ tasks[t] = cancelCall.taskStatus

\* C14: CancelTask on a task that is completed, failed or cancelled leaves
\* its TaskStatus as it is, EndTime included; on a pending or running task
\* it sets the status to cancelled and sets EndTime.
CancelTerminalNoOp ==
    [][\A t \in DOMAIN tasks :
          CancelWrites(t) =>
              IF tasks[t].Status \in Terminal
              THEN tasks'[t] = tasks[t]
              ELSE tasks'[t].Status = "cancelled" /\ tasks'[t].EndTime # NoTime]_vars

\* C15: no two tasks of one agent are recorded as running at the same
\* time.
OneRunningTask ==
    \A t1, t2 \in DOMAIN tasks :
        (/\ t1 # t2
         /\ AgentOf(t1) = AgentOf(t2)
         /\ tasks[t1].Status = "running") => tasks[t2].Status # "running"

\* C16: no two AssignTask calls share a TaskStatus record: a call that
\* records a task leaves the record of every task submitted before as it
\* was.
TaskRecordNotShared ==
    [][Len(goroutines') > Len(goroutines) =>
          \A t \in DOMAIN tasks : tasks'[t] = tasks[t]]_vars

\* the step is the return of the CreateAgent call that made agent agentID
CreateReturns(agentID) ==
    createCall # NoCreate /\ createCall' = NoCreate /\ createCall.agentID = agentID

\* C19: when CreateAgent returns, the agent is registered, its event
\* channel is open, and agent_created is the first event on that channel.
CreatedFirst ==
    [][\A agentID \in 1..ReuseAgents :
          CreateReturns(agentID) =>
              /\ agentID \in DOMAIN agents'
              /\ agentID \in DOMAIN events'
              /\ ~chans'[events'[agentID]].closed
              /\ chans'[events'[agentID]].buf # << >>
              /\ Head(chans'[events'[agentID]].buf).Type = "agent_created"]_vars

ReachGetTools ==
    { config \in AgentConfigs :
         validateConfig(config) = nil /\ config.Memory = nil /\ config.Knowledge = nil }

Assigned(agentID) ==
    /\ Len(goroutines') > Len(goroutines)
    /\ goroutines'[Len(goroutines')].agentID = agentID

\* C20: AssignTask for an agent ID that is not registered returns
\* AgentNotFound; no call goes through for such an ID, and a TaskStatus
\* record appears only with a call that goes through.
AssignUnknownRejected ==
    [][/\ \A agentID \in 0..LifeAgents :
             agentID \notin DOMAIN agents =>
                 AssignTaskRet(agentID) = ErrAgentNotFound /\ ~Assigned(agentID)
       /\ DOMAIN tasks' # DOMAIN tasks =>
             \E agentID \in DOMAIN agents : Assigned(agentID)]_vars

\* C20 happens: an agent was destroyed, and a call for it can still be made
AssignAfterDestroy ==
    \E agentID \in 1..LifeAgents :
        /\ Ready /\ Len(goroutines) < LifeTasks
        /\ Destroyed(agentID) /\ agentID \notin DOMAIN agents
        /\ AssignTaskRet(agentID) # nil

\* C21: from the return of AssignTask the task has a TaskStatus record,
\* pending with Progress 0 until its goroutine writes; task_assigned is the
\* first event emitted about a task, and on the event channel it comes
\* before the task_completed or task_failed of that task.
AssignedFirst ==
    /\ \A t \in DOMAIN goroutines :
          /\ t \in DOMAIN tasks
          /\ goroutines[t].pc = "start" =>
                tasks[t].Status = "pending" /\ tasks[t].Progress = 0
          /\ emitted[t] # << >>
          /\ emitted[t][1] = Emission("manager", "task_assigned")
          /\ \A j \in 2..Len(emitted[t]) : emitted[t][j].Type # "task_assigned"
    /\ \A c \in DOMAIN chans : \A j \in DOMAIN chans[c].buf :
          chans[c].buf[j].Type \in EndTypes =>
              \E i \in 1..(j - 1) :
                  chans[c].buf[i] = Event("task_assigned", chans[c].buf[j].Data)

\* C21 happens: a task was started by the worker and its task_completed
\* was sent on the event channel
AssignedThenRun ==
    \E t \in DOMAIN goroutines :
        /\ \E j \in DOMAIN emitted[t] : emitted[t][j] = Emission("runtime", "task_started")
        /\ \E c \in DOMAIN chans : \E j \in DOMAIN chans[c].buf :
               chans[c].buf[j] = Event("task_completed", t)

\* the step sends an event of the given type on the channel of agentID
Sends(agentID, type) ==
    /\ agentID \in DOMAIN events
    /\ LET old == chans[events[agentID]].buf
           new == chans'[events[agentID]].buf
       IN  new = Append(old, Event(type, agentID))

\* the step writes the given status into the record of agentID
Writes(agentID, status) ==
    /\ agentID \in DOMAIN agents
    /\ agentStatus[agents[agentID]].Status # status
    /\ agentStatus'[agents[agentID]].Status = status

\* what a PauseAgent or ResumeAgent step leaves alone
PauseFrame ==
    /\ taskQueue' = taskQueue /\ tasks' = tasks
    /\ agents' = agents /\ events' = events /\ worker' = worker

\* C22: PauseAgent sets the status of a registered agent to paused and
\* publishes agent_paused, ResumeAgent sets it to running and publishes
\* agent_resumed; neither touches the task queue or a TaskStatus record;
\* for an agent that is not registered both return AgentNotFound.
PauseResumeOnlyStatus ==
    [][\A agentID \in 0..PauseAgents :
          /\ agentID \notin DOMAIN agents => PauseAgentRet(agentID) = ErrAgentNotFound
          /\ (Sends(agentID, "agent_paused") \/ Writes(agentID, "paused")) =>
                /\ agentStatus'[agents[agentID]].Status = "paused"
                /\ Sends(agentID, "agent_paused")
                /\ PauseFrame
          /\ (Sends(agentID, "agent_resumed") \/ Writes(agentID, "running")) =>
                /\ agentStatus'[agents[agentID]].Status = "running"
                /\ Sends(agentID, "agent_resumed")
                /\ PauseFrame]_vars

\* C22 happens: an agent with a task in its queue was paused and resumed
PausedAndResumed ==
    \E agentID \in DOMAIN agents :
        /\ agentStatus[agents[agentID]].Status = "running"
        /\ taskQueue[agents[agentID]] # << >>
        /\ \E i, j \in DOMAIN chans[events[agentID]].buf :
               /\ i < j
               /\ chans[events[agentID]].buf[i].Type = "agent_paused"
               /\ chans[events[agentID]].buf[j].Type = "agent_resumed"

\* the step is a CreateAgent call that made agent object obj
Made(obj) == Len(agentStatus) < obj /\ Len(agentStatus') = obj

\* C30: the agent CreateAgent makes has an ID that is not empty, under
\* which it is registered, and its status at the return is ready: none
\* of completed, failed, cancelled.  No agent ever has an empty ID or one
\* of these statuses.
HandleHasID ==
    [][/\ \A obj \in 1..PauseAgents :
             Made(obj) =>
                 /\ agentStatus'[obj].ID # NoID
                 /\ agentStatus'[obj].ID = agentConfig'[obj].ID
                 /\ agentStatus'[obj].Status = "ready"
                 /\ agentStatus'[obj].ID \in DOMAIN agents'
                 /\ agents'[agentStatus'[obj].ID] = obj
       /\ \A obj \in DOMAIN agentStatus' :
             agentStatus'[obj].ID # NoID /\ agentStatus'[obj].Status \notin Terminal]_vars

\* C30 happens: an agent made under the ID the caller chose is registered
\* under it and ready
MadeWithOwnID ==
    \E obj \in Objects :
        /\ agentStatus[obj].ID = OwnID /\ agentConfig[obj].ID = OwnID
        /\ OwnID \in DOMAIN agents /\ agents[OwnID] = obj
        /\ agentStatus[obj].Status = "ready"

\* everything but reply
State == <<agents, tasks, events, chans, agentStatus, agentConfig, rtVars,
           goroutines, createCall, cancelCall, ncancel, clock, recorded, emitted,
           toolCalls, destroyCalls, panicked, libVars>>

\* the step is a step of a query; it is the return of a query
Queries == [reply' EXCEPT !.had = {}] # [reply EXCEPT !.had = {}]
Returns(op) == Queries /\ reply'.op = op /\ reply'.pc = "done"

\* C23: a query changes nothing but what it returns.  GetTaskStatus
\* returns ErrTaskNotFound for an ID with no record and the record
\* otherwise; GetAgentStatus returns ErrAgentNotFound for an ID with no
\* agent and otherwise a status the agent has had since the call.
QueriesReadAsWritten ==
    [][/\ Queries => State' = State
       /\ Returns("GetTaskStatus") =>
             IF reply'.id \in DOMAIN tasks
             THEN reply'.err = nil /\ reply'.val = tasks[reply'.id]
             ELSE reply'.err = ErrTaskNotFound
       /\ Returns("GetAgentStatus") =>
             IF reply'.err # nil
             THEN reply'.err = ErrAgentNotFound /\ reply'.id \notin DOMAIN agents
             ELSE reply'.val \in reply'.had]_vars

\* C24: a task that has a TaskStatus record keeps one: no step removes it,
\* GetTaskStatus finds it after every step, and every GetTaskStatus call
\* made for it returns without an error.
RecordsKept ==
    [][/\ \A t \in DOMAIN tasks :
             t \in DOMAIN tasks' /\ GetTaskStatusRet(t)'.err # ErrTaskNotFound
       /\ (Returns("GetTaskStatus") /\ reply'.id \in DOMAIN tasks)
             => reply'.err = nil /\ reply'.val.ID = reply'.id]_vars

\* C24 happens: GetTaskStatus returned the record of a cancelled task whose
\* agent had been destroyed
QueriedAfterDestroy ==
    /\ reply.op = "GetTaskStatus" /\ reply.err = nil
    /\ reply.val.Status = "cancelled"
    /\ Destroyed(goroutines[reply.id].agentID)
    /\ goroutines[reply.id].agentID \notin DOMAIN agents

\* C27: a TaskStatus record has a Result only when completed, an Error only
\* when failed, and Progress 1 when completed and 0 otherwise
FieldsMatchStatus ==
    \A t \in DOMAIN tasks :
        /\ tasks[t].Result # NoResult => tasks[t].Status = "completed"
        /\ tasks[t].Error # nil => tasks[t].Status = "failed"
        /\ tasks[t].Progress = IF tasks[t].Status = "completed" THEN 1 ELSE 0

\* C27 happens: there are a completed record with its Result, a failed one
\* with its Error, and a cancelled one whose task completed all the same
EveryOutcomeRecorded ==
    /\ \E t \in DOMAIN tasks :
          tasks[t].Status = "completed" /\ tasks[t].Result # NoResult
    /\ \E t \in DOMAIN tasks : tasks[t].Status = "failed" /\ tasks[t].Error # nil
    /\ \E t \in DOMAIN tasks :
          /\ tasks[t].Status = "cancelled"
          /\ goroutines[t].pc = "done" /\ goroutines[t].taskStatus.Status = "completed"

\* the step is a DestroyAgent call that went through for agentID
Destroys(agentID) == agentID \in DOMAIN agents /\ agentID \notin DOMAIN agents'

\* C25: SubscribeToEvents returns the channel of an agent that exists and
\* ErrAgentNotFound otherwise; when DestroyAgent has returned for an agent,
\* SubscribeToEvents fails for it and the channel a subscriber got for it
\* before is closed.
SubscriberReleased ==
    [][/\ Returns("SubscribeToEvents") =>
             IF reply'.id \in DOMAIN agents
             THEN reply'.err = nil /\ reply'.val = events[reply'.id]
             ELSE reply'.err = ErrAgentNotFound
       /\ \A agentID \in 1..ReuseAgents :
             Destroys(agentID) =>
                 /\ SubscribeToEventsRet(agentID)'.err = ErrAgentNotFound
                 /\ (reply.op = "SubscribeToEvents" /\ reply.id = agentID
                     /\ reply.err = nil) => chans'[reply.val].closed]_vars

\* a worker at this place holds a task: dequeued, not yet done
Busy(pc) == pc \in {"lock", "handle"}

\* C26: when DestroyAgent returns for an agent, no worker of the agent
\* holds a task.
DestroyDrains ==
    [][\A agentID \in 1..MaxAgents :
          Destroys(agentID) =>
              \A w \in DOMAIN worker'[agents[agentID]] :
                  ~Busy(worker'[agents[agentID]][w].pc)]_vars

\* the handler of task t has returned an error; it has returned
HandlerFailed(t) == Recorded(t, "task_failed") # {}
HandlerReturned(t) == \E type \in EndTypes : Recorded(t, type) # {}

\* C28: a worker whose handler returned an error is back at its select and
\* the process goes on; every task that is in the queue when a handler of
\* the agent has failed is taken from the queue and its handler returns.
WorkerSurvivesError ==
    /\ [](\A t \in DOMAIN goroutines :
             HandlerFailed(t) =>
                 /\ panicked = "none"
                 /\ \A w \in DOMAIN worker[AgentOf(t)] :
                       worker[AgentOf(t)][w].pc # "stopped")
    /\ \A u \in 1..WorkTasks :
          (/\ u \in DOMAIN goroutines /\ Queued(u) # {}
           /\ \E t \in DOMAIN goroutines :
                 AgentOf(t) = AgentOf(u) /\ HandlerFailed(t))
              ~> (u \in DOMAIN goroutines /\ HandlerReturned(u) /\ Queued(u) = {})

\* C28 happens: the handler of a task failed and the worker has run the
\* handler of the next task of the agent to its end
NextAfterError ==
    \E t, u \in DOMAIN goroutines :
        /\ t < u /\ AgentOf(t) = AgentOf(u)
        /\ HandlerFailed(t) /\ Recorded(u, "task_completed") # {}

\* the step is the return of a callTool call
ToolReturns == Len(toolCalls') = Len(toolCalls) + 1

\* the call is one whose tool ran and returned a result
ToolRan(c) ==
    /\ c.call.toolID \in Tools(c.agent)
    /\ c.call.Validate = nil /\ c.call.Execute.err = nil

\* C29: a callTool call whose tool ran without error returns the tool's
\* result and no error, whatever the memory store answers, and returns
\* while the memory write is still under way; the end of the memory write
\* changes neither what the call returned nor anything else of the
\* program.
StoreFailureNotSurfaced ==
    [][/\ ToolReturns =>
             LET c == toolCalls'[Len(toolCalls')]
             IN  ToolRan(c) =>
                     /\ c.err = nil /\ c.result = c.call.Execute.result
                     /\ agentConfig[c.agent].Store => c.store = "running"
       /\ \A i \in DOMAIN toolCalls :
             /\ toolCalls'[i].result = toolCalls[i].result
             /\ toolCalls'[i].err = toolCalls[i].err
             /\ toolCalls'[i].store # toolCalls[i].store =>
                   /\ panicked' = panicked /\ tasks' = tasks
                   /\ recorded' = recorded]_vars

\* C29 happens: the memory write of a call failed after the call had
\* returned the tool's result
StoreFailedAfterReturn ==
    \E i \in DOMAIN toolCalls :
        /\ toolCalls[i].store = "failed"
        /\ toolCalls[i].err = nil /\ toolCalls[i].result = "42"

\* C31: emitEvent never sends on an event channel that DestroyAgent has
\* closed: the process never panics with a send on a closed channel.
NoSendOnClosed == panicked # "send on closed channel"

\* C33: no worker takes a task from the queue of a Runtime whose stop
\* channel is closed.
NoDequeueAfterStop ==
    [][\A obj \in Objects : \A w \in DOMAIN worker[obj] :
          (worker[obj][w].pc = "select" /\ worker'[obj][w].pc = "lock")
              => ~stopCh[obj]]_vars

\* C34: the status of a paused agent stays paused until ResumeAgent sets it
\* to running or DestroyAgent to stopped.
PausedUntilResumed ==
    [][\A obj \in Objects :
          agentStatus[obj].Status = "paused"
              => agentStatus'[obj].Status \in {"paused", "running", "stopped"}]_vars

\* C35: every agent object whose Runtime has not been told to stop is
\* registered, and every open event channel is the channel of a registered
\* agent ID.
NothingOrphaned ==
    /\ \A obj \in Objects :
          ~stopCh[obj] => \E agentID \in DOMAIN agents : agents[agentID] = obj
    /\ \A ch \in DOMAIN chans :
          ~chans[ch].closed => \E agentID \in DOMAIN events : events[agentID] = ch

\* the DestroyAgent calls for an agent ID that returned success
Succeeded(agentID) ==
    { c \in DOMAIN destroyCalls :
         /\ destroyCalls[c].agentID = agentID
         /\ destroyCalls[c].pc = "done" /\ destroyCalls[c].ret = nil }

\* C32: DestroyAgent calls for one agent ID that run side by side never
\* close a closed channel, and at most one of them returns success.
DestroyedOnceByTwins ==
    /\ panicked # "close of closed channel"
    /\ \A agentID \in 1..TwinAgents : Cardinality(Succeeded(agentID)) <= 1

\* ======================================================== the tool manager
\* RegisterSpec: RegisterTool calls that run side by side
RegisterCalls == 3

ErrToolAlreadyExists == New("tool already exists")
ErrInvalidTool == New("invalid tool")

\* a Tool as the manager sees it: what ID(), Name() and Version() return;
\* NoTool is the nil Tool
NewTool(id, name, version) == [ID |-> id, Name |-> name, Version |-> version]
NoTool == NewTool(NoID, "", "")
ToolInputs ==
    { NoTool,
      NewTool(1, "calc", "1"), NewTool(1, "calc", "2"),
      NewTool(2, "search", "1"), NewTool(2, "search", "") }

validateTool(tool) ==
    IF tool.ID = NoID \/ tool.Name = "" \/ tool.Version = ""
    THEN ErrInvalidTool ELSE nil

\* sync.Map.Store, which replaces whatever the key holds
StoreOver(m, key, value) ==
    [loaded |-> FALSE, m |-> [k \in DOMAIN m \cup {key} |->
                                 IF k = key THEN value ELSE m[k]]]
\* sync.Map.LoadOrStore: one atomic step that stores only under a free key
LoadOrStore(m, key, value) ==
    IF key \in DOMAIN m
    THEN [loaded |-> TRUE, m |-> m]
    ELSE [loaded |-> FALSE, m |-> [k \in DOMAIN m \cup {key} |->
                                      IF k = key THEN value ELSE m[k]]]

\* RegisterTool, lines 579-586: the checks that touch no shared state
RegisterTool(tool, limit) ==
    /\ Len(registered) < limit
    /\ LET err == IF tool = NoTool THEN ErrInvalidTool ELSE validateTool(tool)
       IN registered' = Append(registered,
              [tool |-> tool, pc |-> IF err = nil THEN "store" ELSE "done",
               ret |-> err])
    /\ UNCHANGED <<agentVars, tools, registryVars, memoryVars, knowledgeVars>>

\* RegisterTool, lines 589-593
RegisterStore(c) ==
    /\ c \in DOMAIN registered
    /\ registered[c].pc = "store"
    /\ LET r == LoadOrStore(tools, registered[c].tool.ID, registered[c].tool)
       IN /\ tools' = r.m
          /\ registered' = [registered EXCEPT
                 ![c].pc = "done",
                 ![c].ret = IF r.loaded THEN ErrToolAlreadyExists ELSE nil]
    /\ UNCHANGED <<agentVars, registryVars, memoryVars, knowledgeVars>>

GetTool(toolID) ==
    IF toolID \in DOMAIN tools
    THEN [tool |-> tools[toolID], err |-> nil]
    ELSE [tool |-> NoTool, err |-> ErrToolNotFound]

RegisterNext ==
    \/ \E tool \in ToolInputs : RegisterTool(tool, RegisterCalls)
    \/ \E c \in 1..RegisterCalls : RegisterStore(c)

RegisterSpec == Init /\ [][RegisterNext]_vars

\* the finished RegisterTool calls for a tool ID, and those that succeeded
Registered(toolID) ==
    { c \in DOMAIN registered :
         registered[c].tool.ID = toolID /\ registered[c].pc = "done" }
Won(toolID) == { c \in Registered(toolID) : registered[c].ret = nil }

\* C36: a RegisterTool call that finds its ID registered returns
\* ErrToolAlreadyExists and leaves the tools as they are, one that finds it
\* free succeeds and GetTool returns its tool; of the finished calls for one
\* ID with a valid tool exactly one has succeeded, and GetTool returns the
\* tool of that call.
RegisteredOnce ==
    /\ [][\A c \in DOMAIN registered :
             (registered[c].pc = "store" /\ registered'[c].pc = "done") =>
                 IF registered[c].tool.ID \in DOMAIN tools
                 THEN registered'[c].ret = ErrToolAlreadyExists /\ tools' = tools
                 ELSE /\ registered'[c].ret = nil
                      /\ tools' = StoreOver(tools, registered[c].tool.ID,
                                            registered[c].tool).m]_vars
    /\ [](\A toolID \in {1, 2} :
             /\ (\E c \in Registered(toolID) : registered[c].ret # ErrInvalidTool)
                    => Cardinality(Won(toolID)) = 1
             /\ \A c \in Won(toolID) :
                    GetTool(toolID) = [tool |-> registered[c].tool, err |-> nil])

\* C36 happens: of two calls for one ID with different tools the one that
\* began first was refused, so the calls overlapped, and GetTool returns the
\* tool of the other
RegisteredTwice ==
    \E c, d \in DOMAIN registered :
        /\ c < d
        /\ registered[c].tool.ID = registered[d].tool.ID
        /\ registered[c].tool # registered[d].tool
        /\ registered[c].pc = "done" /\ registered[c].ret = ErrToolAlreadyExists
        /\ registered[d].pc = "done" /\ registered[d].ret = nil
        /\ GetTool(registered[d].tool.ID).tool = registered[d].tool

\* ======================================================= the tool Registry
\* RegistrySpec: the tool IDs that metadata is registered for
RegistryTools == 2

ToolCategories == {"math", "web"}
ToolTags == {"fast"}

\* ToolMetadata: the ID and what the index is built from
MetadataInputs ==
    { [ID |-> id, Categories |-> cs, Tags |-> ts] :
        id \in {NoID} \cup (1..RegistryTools),
        cs \in SUBSET ToolCategories, ts \in SUBSET ToolTags }

\* lines 35-40 and 44-49: the ID joins the set of each key, which is made
\* when the key has none
IndexAdd(index, keys, id) ==
    [k \in DOMAIN index \cup keys |->
        IF k \in keys
        THEN (IF k \in DOMAIN index THEN index[k] ELSE {}) \cup {id}
        ELSE index[k]]

\* lines 66-73 and 77-84: the ID leaves the set of each key, and a set left
\* empty is deleted
IndexDelete(index, keys, id) ==
    [k \in { x \in DOMAIN index : x \notin keys \/ index[x] \ {id} # {} } |->
        IF k \in keys THEN index[k] \ {id} ELSE index[k]]

RegisterMetadata(md) ==
    /\ IF md.ID = NoID
       THEN UNCHANGED registryVars
       ELSE /\ metadata' = StoreOver(metadata, md.ID, md).m
            /\ categories' = IndexAdd(categories, md.Categories, md.ID)
            /\ tags' = IndexAdd(tags, md.Tags, md.ID)
    /\ UNCHANGED <<agentVars, toolVars, memoryVars, knowledgeVars>>

UnregisterMetadata(toolID) ==
    /\ IF toolID \notin DOMAIN metadata
       THEN UNCHANGED registryVars
       ELSE /\ metadata' = Remove(metadata, toolID)
            /\ categories' = IndexDelete(categories,
                                 metadata[toolID].Categories, toolID)
            /\ tags' = IndexDelete(tags, metadata[toolID].Tags, toolID)
    /\ UNCHANGED <<agentVars, toolVars, memoryVars, knowledgeVars>>

FindByCategory(category) ==
    IF category \in DOMAIN categories THEN categories[category] ELSE {}
FindByTag(tag) == IF tag \in DOMAIN tags THEN tags[tag] ELSE {}
ListCategories == DOMAIN categories
ListTags == DOMAIN tags

RegistryNext ==
    \/ \E md \in MetadataInputs : RegisterMetadata(md)
    \/ \E toolID \in 1..RegistryTools : UnregisterMetadata(toolID)

RegistrySpec == Init /\ [][RegistryNext]_vars

\* C37: FindByCategory and FindByTag return exactly the IDs whose stored
\* metadata lists the category or the tag, and ListCategories and ListTags
\* list no category and no tag without a tool.
IndexMatchesMetadata ==
    /\ \A category \in ToolCategories : \A toolID \in 1..RegistryTools :
          toolID \in FindByCategory(category)
              <=> /\ toolID \in DOMAIN metadata
                  /\ category \in metadata[toolID].Categories
    /\ \A tag \in ToolTags : \A toolID \in 1..RegistryTools :
          toolID \in FindByTag(tag)
              <=> toolID \in DOMAIN metadata /\ tag \in metadata[toolID].Tags
    /\ \A category \in ListCategories : FindByCategory(category) # {}
    /\ \A tag \in ListTags : FindByTag(tag) # {}

\* ================================================== the in-memory store
\* MemorySpec: one store of StoreMaxSize memories; the IDs and the times
\* that callers give to memories, the Store calls counted by the statistics
\* at one time, and the Consolidate calls made
StoreMaxSize == 3
MemoryIDs == 2
MemoryTimes == 1
MemoryStores == 4
ConsolidateCalls == 1

ErrInvalidMemory == New("invalid memory")
ShortTerm == "short_term"
LongTerm == "long_term"
Working == "working"
MemoryTypes == {ShortTerm, LongTerm, Working}

\* the memories a caller stores: Content is nil or something, an empty ID
\* is replaced by a new one and a zero Timestamp by the time of the call
MemoryInputs ==
    { [ID |-> id, Type |-> t, Timestamp |-> ts, Content |-> c] :
        id \in {NoID} \cup (1..MemoryIDs), t \in MemoryTypes,
        ts \in {NoTime} \cup (1..MemoryTimes), c \in {"<nil>", "note"} }

validateMemory(m) == IF m.Content = "<nil>" THEN ErrInvalidMemory ELSE nil

\* the statistics after counting n memories of one type in or out
Counted(st, type, n) ==
    [TotalItems   |-> st.TotalItems + n,
     ShortTerm    |-> st.ShortTerm + (IF type = ShortTerm THEN n ELSE 0),
     LongTerm     |-> st.LongTerm + (IF type = LongTerm THEN n ELSE 0),
     WorkingItems |-> st.WorkingItems + (IF type = Working THEN n ELSE 0)]

\* int(float64(s.maxSize) * 0.8)
targetSize(maxSize) == (maxSize * 8) \div 10

\* Store: uuid.New() is an ID that no memory is held under, time.Now() is
\* later than every time a caller supplies; go s.Consolidate starts a call
\* that runs on its own
Store(m0, maxSize, limit) ==
    /\ stats.TotalItems < limit
    /\ \E id \in IF m0.ID = NoID THEN (1..MemoryIDs) \ DOMAIN memories
                 ELSE {m0.ID} :
          LET m == [m0 EXCEPT !.ID = id,
                       !.Timestamp = IF m0.Timestamp = NoTime
                                     THEN MemoryTimes + 1 ELSE m0.Timestamp]
          IN IF validateMemory(m) # nil
             THEN UNCHANGED memoryVars
             ELSE /\ memories' = StoreOver(memories, m.ID, m).m
                  /\ stats' = Counted(stats, m.Type, 1)
                  /\ IF stats'.TotalItems > maxSize
                     THEN /\ Len(consolidations) < ConsolidateCalls
                          /\ consolidations' = Append(consolidations,
                                 [pc |-> "check", short |-> {}, n |-> 0,
                                  toDelete |-> {}])
                     ELSE UNCHANGED consolidations
    /\ UNCHANGED <<agentVars, toolVars, registryVars, knowledgeVars>>

\* the filters of Forget: the IDs (none: every ID) and the Type (empty:
\* every type)
FilterInputs ==
    { [IDs |-> ids, Type |-> t] :
        ids \in {{}} \cup {{id} : id \in 1..MemoryIDs},
        t \in {""} \cup MemoryTypes }

RECURSIVE Forgotten(_, _)
\* lines 231-246: every ID still held is deleted and counted out
Forgotten(st, gone) ==
    IF gone = {} THEN st
    ELSE LET id == CHOOSE x \in gone : TRUE
         IN Forgotten(Counted(st, memories[id].Type, -1), gone \ {id})

\* Forget: the memories that Range finds are deleted under the lock, each
\* one only when Load still finds it
Forget(filter) ==
    /\ LET toDelete == { id \in DOMAIN memories :
                           /\ filter.IDs = {} \/ id \in filter.IDs
                           /\ filter.Type = "" \/ memories[id].Type = filter.Type }
       IN /\ memories' = [id \in DOMAIN memories \ toDelete |-> memories[id]]
          /\ stats' = Forgotten(stats, toDelete)
    /\ UNCHANGED <<consolidations, agentVars, toolVars, registryVars,
                   knowledgeVars>>

\* a caller calls Consolidate
Consolidate(limit) ==
    /\ Len(consolidations) < limit
    /\ consolidations' = Append(consolidations,
           [pc |-> "check", short |-> {}, n |-> 0, toDelete |-> {}])
    /\ UNCHANGED <<memories, stats, agentVars, toolVars, registryVars,
                   knowledgeVars>>

\* Consolidate, lines 255-269: the statistics are read without the lock
ConsolidateCheck(c, maxSize) ==
    /\ c \in DOMAIN consolidations
    /\ consolidations[c].pc = "check"
    /\ consolidations' = [consolidations EXCEPT ![c] =
           IF stats.TotalItems <= targetSize(maxSize)
           THEN [@ EXCEPT !.pc = "done"]
           ELSE [@ EXCEPT !.pc = "count",
                    !.short = { memories[id] : id \in
                                  { x \in DOMAIN memories :
                                       memories[x].Type = ShortTerm } }]]
    /\ UNCHANGED <<memories, stats, agentVars, toolVars, registryVars,
                   knowledgeVars>>

\* the first n of the memories sorted by Timestamp, oldest first; the
\* order of memories of one Timestamp is any
OldestFirst(short, n) ==
    { D \in SUBSET { m.ID : m \in short } :
         /\ Cardinality(D) = (IF n > 0 THEN n ELSE 0)
         /\ \A m1 \in short : \A m2 \in short :
               (m1.ID \in D /\ m2.ID \notin D) => m1.Timestamp <= m2.Timestamp }

\* Consolidate, lines 272-280: the statistics are read again
ConsolidateCount(c, maxSize) ==
    /\ c \in DOMAIN consolidations
    /\ consolidations[c].pc = "count"
    /\ LET short == consolidations[c].short
           over == stats.TotalItems - targetSize(maxSize)
           toDeleteCount == IF over > Cardinality(short)
                            THEN Cardinality(short) ELSE over
       IN \E D \in OldestFirst(short, toDeleteCount) :
             consolidations' = [consolidations EXCEPT
                 ![c].pc = "delete", ![c].n = toDeleteCount, ![c].toDelete = D]
    /\ UNCHANGED <<memories, stats, agentVars, toolVars, registryVars,
                   knowledgeVars>>

\* Consolidate, lines 283-291
ConsolidateDelete(c) ==
    /\ c \in DOMAIN consolidations
    /\ consolidations[c].pc = "delete"
    /\ memories' = [id \in DOMAIN memories \ consolidations[c].toDelete |->
                       memories[id]]
    /\ stats' = Counted(stats, ShortTerm, -consolidations[c].n)
    /\ consolidations' = [consolidations EXCEPT ![c].pc = "done"]
    /\ UNCHANGED <<agentVars, toolVars, registryVars, knowledgeVars>>

GetStats == stats

MemoryNext ==
    \/ \E m \in MemoryInputs : Store(m, StoreMaxSize, MemoryStores)
    \/ \E filter \in FilterInputs : Forget(filter)
    \/ Consolidate(ConsolidateCalls)
    \/ \E c \in 1..ConsolidateCalls : ConsolidateCheck(c, StoreMaxSize)
    \/ \E c \in 1..ConsolidateCalls : ConsolidateCount(c, StoreMaxSize)
    \/ \E c \in 1..ConsolidateCalls : ConsolidateDelete(c)

MemorySpec == Init /\ [][MemoryNext]_vars

\* the memories of one type that the store holds
Held(type) == { id \in DOMAIN memories : memories[id].Type = type }

\* C38: when no Consolidate call is under way GetStats gives the number of
\* memories held, in all and of each type.
StatsMatchMemories ==
    (\A c \in DOMAIN consolidations : consolidations[c].pc \in {"check", "done"})
        => /\ GetStats.TotalItems = Cardinality(DOMAIN memories)
           /\ GetStats.ShortTerm = Cardinality(Held(ShortTerm))
           /\ GetStats.LongTerm = Cardinality(Held(LongTerm))
           /\ GetStats.WorkingItems = Cardinality(Held(Working))

\* C39: a Consolidate call deletes short-term memories only, none of them
\* younger than a short-term memory it keeps, and leaves every other memory
\* as it was; it deletes until the memories held are 80% of maxSize or no
\* short-term memory is left, and deletes nothing when the memories held
\* are at most 80% of maxSize already.
ConsolidatesOldest ==
    [][\A c \in DOMAIN consolidations :
          (consolidations[c].pc = "delete" /\ consolidations'[c].pc = "done")
                => LET gone == DOMAIN memories \ DOMAIN memories'
                   IN /\ \A id \in gone : memories[id].Type = ShortTerm
                      /\ \A id \in DOMAIN memories' : memories'[id] = memories[id]
                      /\ \A id \in gone : \A kept \in Held(ShortTerm) \ gone :
                            memories[id].Timestamp <= memories[kept].Timestamp
                      /\ \/ Cardinality(DOMAIN memories') = targetSize(StoreMaxSize)
                         \/ /\ Cardinality(DOMAIN memories') > targetSize(StoreMaxSize)
                            /\ Held(ShortTerm) \subseteq gone
                         \/ gone = {}]_vars

\* ===================================================== the knowledge base
\* KnowledgeSpec: a base with a vector store; the IDs that callers give to
\* knowledge, and the AddKnowledge calls made
KnowledgeIDs == 2
KnowledgeCalls == 3

ErrInvalidKnowledge == New("invalid knowledge")
ErrEmbed == New("embedding unavailable")
ErrVectorAdd == New("vector store unavailable")

\* the Knowledge a caller adds: Content is nil or something, Vector is
\* empty or supplied
KnowledgeInputs ==
    { [ID |-> id, Content |-> c, Vector |-> v] :
        id \in {NoID} \cup (1..KnowledgeIDs), c \in {"<nil>", "a", "b"},
        v \in {<< >>, <<1>>} }

\* what the vector store answers to the calls of one AddKnowledge or
\* DeleteKnowledge
VectorOutcomes == [Embed : {nil, ErrEmbed}, Add : {nil, ErrVectorAdd}]

validateKnowledge(k) == IF k.Content = "<nil>" THEN ErrInvalidKnowledge ELSE nil

\* the vector that VectorStore.Embed makes of a content
Embed(content) == IF content = "a" THEN <<2>> ELSE <<3>>

\* AddKnowledge: uuid.New() is an ID that no item is stored under
AddKnowledge(k0, out, limit) ==
    /\ added.n < limit
    /\ \E id \in IF k0.ID = NoID THEN (1..KnowledgeIDs) \ DOMAIN items
                 ELSE {k0.ID} :
          LET k1 == [k0 EXCEPT !.ID = id]
              k == IF Len(k1.Vector) = 0
                   THEN [k1 EXCEPT !.Vector = Embed(k1.Content)] ELSE k1
          IN IF validateKnowledge(k1) # nil
             THEN /\ added' = [n |-> added.n + 1, k |-> k1,
                               err |-> validateKnowledge(k1)]
                  /\ UNCHANGED <<items, vector>>
             ELSE IF Len(k1.Vector) = 0 /\ out.Embed # nil
             THEN /\ added' = [n |-> added.n + 1, k |-> k1, err |-> out.Embed]
                  /\ UNCHANGED <<items, vector>>
             ELSE IF out.Add # nil
             THEN \* lines 48 and 52-55: stored, then deleted again
                  /\ items' = Remove(StoreOver(items, k.ID, k).m, k.ID)
                  /\ added' = [n |-> added.n + 1, k |-> k, err |-> out.Add]
                  /\ UNCHANGED vector
             ELSE /\ items' = StoreOver(items, k.ID, k).m
                  /\ vector' = StoreOver(vector, k.ID, k.Vector).m
                  /\ added' = [n |-> added.n + 1, k |-> k, err |-> nil]
    /\ UNCHANGED <<agentVars, toolVars, registryVars, memoryVars>>

\* DeleteKnowledge: the item is deleted before the vector store is asked,
\* and stays deleted when the vector store fails
DeleteKnowledge(id, err) ==
    /\ IF id \notin DOMAIN items
       THEN UNCHANGED <<items, vector>>
       ELSE /\ items' = Remove(items, id)
            /\ vector' = IF err = nil THEN Remove(vector, id) ELSE vector
    /\ UNCHANGED <<added, agentVars, toolVars, registryVars, memoryVars>>

KnowledgeNext ==
    \/ \E k \in KnowledgeInputs : \E out \in VectorOutcomes :
          AddKnowledge(k, out, KnowledgeCalls)
    \/ \E id \in 1..KnowledgeIDs : \E err \in {nil, ErrVectorAdd} :
          DeleteKnowledge(id, err)

KnowledgeSpec == Init /\ [][KnowledgeNext]_vars

\* C40: an AddKnowledge call that returns the error of the vector store's
\* Add leaves the stored items exactly as they were.
AddedOrNothing ==
    [][(added'.n # added.n /\ added'.err = ErrVectorAdd) => items' = items]_vars
====
